---- MODULE Spec2Model ----
(***************************************************************************)
(* Verification model of the elora-chat relay backend: the broadcast hub   *)
(* (routes/chat.go), the SQLite storage engine (internal/storage/sqlite),  *)
(* the change tailer (internal/tailer) and the gnasty ingest supervisor    *)
(* (internal/ingest).  Each subsystem has its own specification over the   *)
(* shared variables; a specification leaves the variables of the other     *)
(* subsystems at their initial value.                                      *)
(***************************************************************************)
EXTENDS Integers, Sequences, FiniteSets, TLC

\* ------------------------------------------------------------------------
\* Bounds of the model
\* ------------------------------------------------------------------------
\* capacity of a subscriber queue; chat.go makes it 64, the model scales it
QueueCap == 2
\* number of queues addSubscriber may create in one run
MaxSubs == 2
\* number of Publish calls in one run
MaxPub == 3
\* number of Unsubscribe calls per queue
MaxUnsub == 2
\* concurrent publishers (ingest loops, tailer)
NPub == 1
\* largest millisecond timestamp a caller passes to InsertMessage
MaxTS == 2
\* largest batch limit a caller passes to TailNext
MaxLimit == 2
\* number of TailNext calls of the paging reader
MaxTailCalls == 4
\* cfg.Batch of the tailer
TailBatch == 2
\* rows other processes insert while the tailer runs
MaxTailerRows == 2
\* size past which the tailer clears its seen-ID set; 200000 in
\* dbtailer.go, scaled
SeenCap == 1
\* process crashes in one run
MaxCrashes == 1
\* rows StreamChat replays on connect; 100 in chat.go, scaled
HistLimit == 2
\* non-empty lines the harvester emits
MaxLines == 3
\* empty lines the harvester emits
MaxEmptyLines == 1
\* configured sources (URLs) of the gnasty supervisor
NSources == 2
\* restarts of one source in one run, when it is the only source
MaxRestarts == 4
\* restarts of each source in one run, when several sources run
MaxRestartsEach == 1
\* stdout lines read from one source
MaxGLines == 3
\* largest BackoffBase and BackoffMax a configuration sets, in seconds
MaxCfgBase == 2
MaxCfgMax == 5
\* message rows written through the first store
MaxMigRows == 2
\* rows another process deletes and inserts again under the same ID
MaxReplace == 1
\* longest text handed to the tokenizer, in characters
MaxText == 5

VARIABLES
    \* ---- broadcast hub (routes/chat.go) ----
    subscribers,   \* the registry: set of registered queues
    created,       \* queues made by addSubscriber so far
    chanBuf,       \* queue -> buffered payloads (Go channel buffer)
    chanClosed,    \* queue -> close(ch) has run
    closes,        \* queue -> number of close(ch) executions
    unsubCalls,    \* queue -> number of removeSubscriber calls
    recvd,         \* queue -> payloads its consumer has read
    pub,           \* publisher -> [pc, msg, targets] of broadcastChatMessage
    nextMsg,       \* next payload to publish
    snap,          \* payload -> registry snapshot of its finished Publish
    dropped,       \* payloads not enqueued by the select/default branch
    panicked,      \* Go runtime panic or fatal error raised by a channel or map operation
    \* ---- storage engine (internal/storage/sqlite/sqlite.go) ----
    db,            \* "nil" or "open": the Store's s.db handle
    messages,      \* rows of the messages table
    \* ---- a reader that pages through TailNext ----
    cursor,        \* the TailPosition returned by its previous call
    returned,      \* every row its calls have returned, in order
    tailCalls,     \* number of TailNext calls it has made
    \* ---- process environment ----
    dropEmpty,     \* wsDropEmptyEnabled(): ELORA_WS_DROP_EMPTY
    storeUp,       \* FALSE while store queries fail (outage)
    \* ---- change tailer (internal/tailer/dbtailer.go) ----
    cfgPersist,    \* cfg.PersistOffsets && cfg.OffsetPath != ""
    tpc,           \* "idle", "polling", "broadcast" or "failed"
    last,          \* r.last
    persisted,     \* r.persisted
    offsetFile,    \* content of the offset file, ZeroPos if absent
    seen,          \* r.seen
    toBroadcast,   \* rows of the current tick not yet broadcast
    handed,        \* rows handed to BroadcastFromTailer, in order
    fetched,       \* rows TailNext has returned to the tailer
    lastTick,      \* outcome of the latest tick: "none", "ok", "error"
    outageRows,    \* rows inserted while the store failed the running tailer
    crashes,       \* number of process crashes so far
    atStart,       \* the rows in the table when Runner.Start ran
    seenEpoch,     \* number of times r.seen was cleared in this run
    tickEpoch,     \* seenEpoch when the current batch was fetched
    handedEpoch,   \* for each entry of handed: its run and its tickEpoch
    replaced,      \* rows deleted and inserted again under the same ID so far
    \* ---- live ingest (processChatOutput) and one StreamChat connection ----
    now,           \* wall clock in milliseconds
    ipc,           \* ingest loop: "read" or "bcast" (between insert and broadcast)
    ipayload,      \* payload the ingest loop is about to broadcast
    linesIn,       \* non-empty harvester lines read so far
    emptyLines,    \* harvester lines dropped as empty so far
    published,     \* texts of the messages stored and then published
    cstep,         \* position of the connection in StreamChatSteps
    histSeen,      \* the rows in the store when history was read
    tailerSent,    \* rowids the tailer has passed to BroadcastFromTailer
    frames,        \* frames written to the connection, in order
    \* ---- gnasty supervisor (internal/ingest/gnasty_process.go) ----
    gcfg,          \* [base, max]: the GnastyConfig after NewGnasty
    gpc,           \* source -> "top", "running", "sleep" or "returned"
    backoff,       \* source -> the local variable backoff of run
    sleepWhy,      \* source -> why run is about to sleep: "exit" or "startfail"
    delays,        \* source -> the delays slept so far, with their reason
    cancelled,     \* ctx.Done() is closed
    hasInsert,     \* cfg.Insert is not nil
    urls,          \* the configured sources
    driver,        \* ELORA_INGEST_DRIVER: "gnasty" or "chatdownloader"
    waited,        \* GnastyProcess.Wait has returned
    glines,        \* source -> the kinds of the stdout lines read so far
    forwarded,     \* source -> the calls of cfg.Insert, in order
    fpc,           \* source -> monitorAndRestartChatFetch: "start", "running", "sleep"
    fdelays,       \* source -> the sleeps monitorAndRestartChatFetch has made
    procExited,    \* log.Fatal or os.Exit has ended the process
    mpc,           \* main: "serving", "shutdown" (in srv.Shutdown) or "exited"
    epc,           \* source -> processChatOutput is "idle" or in a "write" of EmoteCache
    \* ---- two Store objects opened on one database path ----
    dbFile,        \* the database file: migrations table, schema, apply counts
    stores,        \* store -> [inited, db, err]
    rowsAtClose,   \* the message rows in the file when the first store closed
    \* ---- writeOffset step by step (internal/tailer/dbtailer.go) ----
    tmpFile,       \* content of OffsetPath + ".tmp": NoContent if absent
    wpc,           \* persistPosition: "idle", "tmp" (in WriteFile) or "rename"
    wstate,        \* the offsetState being written
    wres,          \* outcome of the latest writeOffset: "none", "ok", "err"
    wbefore,       \* offset file and r.persisted when that writeOffset began
    wrote,         \* every offsetState handed to writeOffset so far
    observed,      \* every content a reader found at OffsetPath
    \* ---- one harvested message on the live and on the tailer path ----
    hmsg,          \* the harvester's line and the settings it meets
    prow,          \* the row processChatOutput stored: <<>> or <<row>>
    liveOut,       \* payloads processChatOutput broadcast: <<>> or <<payload>>
    tailerOut,     \* payloads BroadcastFromTailer broadcast: <<>> or <<payload>>
    lastOut,       \* the payload serialized last, with its path: <<>> or <<out>>
    \* ---- callers of the Store and of GET /api/messages ----
    lastOp,        \* the latest call: its name, arguments, outcome, rows before it
    pagePc,        \* the paging client: "idle", "paging" or "done"
    pageBefore,    \* the next_before_ts of the latest response (NoTS if none)
    visited,       \* ids of the items of the responses so far, in order
    \* ---- one call of the tokenizer ----
    tokIn,         \* the input text, one character per element
    tokSegs,       \* the segments the colon scan split it into
    tokOut,        \* the tokens of Iter
    tokPc,         \* "start", "scanned" or "done"
    \* ---- one StreamChat connection: handler and writer goroutine ----
    hexit,         \* how StreamChat returned ("" while it has not)
    wexit,         \* why the writer goroutine returned ("" while it has not)
    doneClosed,    \* close(done) was executed
    connClosed     \* the deferred conn.Close() was executed

hubVars == <<subscribers, created, chanBuf, chanClosed, closes, unsubCalls,
             recvd, pub, nextMsg, snap, dropped, panicked>>

storeVars == <<db, messages>>

tailVars == <<cursor, returned, tailCalls>>

envVars == <<dropEmpty, storeUp>>

epochVars == <<atStart, seenEpoch, tickEpoch, handedEpoch, replaced>>

tailerVars == <<cfgPersist, tpc, last, persisted, offsetFile, seen,
                toBroadcast, handed, fetched, lastTick, outageRows, crashes,
                epochVars>>

streamVars == <<now, ipc, ipayload, linesIn, emptyLines, published, cstep,
                histSeen, tailerSent, frames>>

supVars == <<urls, driver, waited, glines, forwarded, fpc, fdelays,
             procExited, mpc, epc>>

gnastyVars == <<gcfg, gpc, backoff, sleepWhy, delays, cancelled, hasInsert,
                supVars>>

migVars == <<dbFile, stores, rowsAtClose>>

offsetVars == <<tmpFile, wpc, wstate, wres, wbefore, wrote, observed>>

tokVars == <<tokIn, tokSegs, tokOut, tokPc>>

connVars == <<hexit, wexit, doneClosed, connClosed>>

apiVars == <<hmsg, prow, liveOut, tailerOut, lastOut, lastOp, pagePc,
             pageBefore, visited, tokVars, connVars>>

restVars == <<gnastyVars, migVars, offsetVars, apiVars>>

vars == <<hubVars, storeVars, tailVars, envVars, tailerVars, streamVars,
          gnastyVars, migVars, offsetVars, apiVars>>

nonHubVars == <<storeVars, tailVars, envVars, tailerVars, streamVars,
                gnastyVars, migVars, offsetVars, apiVars>>

Chans == 1..MaxSubs
Pubs == 1..NPub

InSeq(x, s) == \E i \in 1..Len(s) : s[i] = x

\* ------------------------------------------------------------------------
\* Broadcast hub
\* ------------------------------------------------------------------------
HubInit ==
    /\ subscribers = {}
    /\ created = {}
    /\ chanBuf = [c \in Chans |-> <<>>]
    /\ chanClosed = [c \in Chans |-> FALSE]
    /\ closes = [c \in Chans |-> 0]
    /\ unsubCalls = [c \in Chans |-> 0]
    /\ recvd = [c \in Chans |-> <<>>]
    /\ pub = [p \in Pubs |-> [pc |-> "idle", msg |-> 0, targets |-> {}, snap |-> {}]]
    /\ nextMsg = 1
    /\ snap = << >>
    /\ dropped = {}
    /\ panicked = "none"

\* the select { case ch <- payload: default: } of broadcastChatMessage:
\* the send succeeds iff the buffer has room
ChanHasRoomFull(buf) == Len(buf) + 1 < QueueCap
ChanHasRoom(buf) == Len(buf) < QueueCap

\* every payload ever enqueued on a queue: read already, or still buffered
Enqueued(ch) == recvd[ch] \o chanBuf[ch]

\* addSubscriber: make a queue of capacity 64 and register it under the lock
addSubscriber(ch) ==
    /\ panicked = "none"
    /\ ch \notin created
    /\ \A c \in Chans : c < ch => c \in created
    /\ created' = created \cup {ch}
    /\ subscribers' = subscribers \cup {ch}
    /\ UNCHANGED <<chanBuf, chanClosed, closes, unsubCalls, recvd, pub,
                   nextMsg, snap, dropped, panicked>>

\* the registry test of removeSubscriber: delete and close only a
\* registered queue
removeGuardNone(reg, ch) == TRUE
removeGuard(reg, ch) == ch \in reg

\* removeSubscriber: under the lock, delete the queue from the registry and
\* close it, if it is registered
removeSubscriber(ch) ==
    /\ panicked = "none"
    /\ ch \in created
    /\ unsubCalls[ch] < MaxUnsub
    /\ unsubCalls' = [unsubCalls EXCEPT ![ch] = @ + 1]
    /\ IF removeGuard(subscribers, ch)
         THEN /\ subscribers' = subscribers \ {ch}
              /\ closes' = [closes EXCEPT ![ch] = @ + 1]
              /\ chanClosed' = [chanClosed EXCEPT ![ch] = TRUE]
              /\ panicked' = IF chanClosed[ch] THEN "close of closed channel"
                                               ELSE panicked
         ELSE UNCHANGED <<subscribers, closes, chanClosed, panicked>>
    /\ UNCHANGED <<created, chanBuf, recvd, pub, nextMsg, snap, dropped>>

\* broadcastChatMessage, first half: under the lock, return if nobody is
\* registered, else snapshot the registry
PublishSnapshot(p) ==
    /\ panicked = "none"
    /\ pub[p].pc = "idle"
    /\ nextMsg <= MaxPub
    /\ nextMsg' = nextMsg + 1
    /\ IF subscribers = {}
         THEN /\ snap' = (nextMsg :> {}) @@ snap
              /\ UNCHANGED pub
         ELSE /\ pub' = [pub EXCEPT ![p] = [pc |-> "send", msg |-> nextMsg,
                                            targets |-> subscribers,
                                            snap |-> subscribers]]
              /\ UNCHANGED snap
    /\ UNCHANGED <<subscribers, created, chanBuf, chanClosed, closes,
                   unsubCalls, recvd, dropped, panicked>>

\* broadcastChatMessage, second half: outside the lock, one non-blocking
\* send per snapshotted queue (Go map order: any remaining target)
PublishSend(p) ==
    /\ panicked = "none"
    /\ pub[p].pc = "send"
    /\ \E ch \in pub[p].targets :
         LET rest == pub[p].targets \ {ch}
             m == pub[p].msg
         IN /\ IF chanClosed[ch]
                 THEN /\ panicked' = "send on closed channel"
                      /\ UNCHANGED <<chanBuf, dropped>>
                 ELSE /\ UNCHANGED panicked
                      /\ IF ChanHasRoom(chanBuf[ch])
                           THEN /\ chanBuf' = [chanBuf EXCEPT ![ch] = Append(@, m)]
                                /\ UNCHANGED dropped
                           ELSE /\ dropped' = dropped \cup
                                      {[ch |-> ch, msg |-> m, len |-> Len(chanBuf[ch])]}
                                /\ UNCHANGED chanBuf
            /\ IF rest = {} /\ ~chanClosed[ch]
                 THEN /\ pub' = [pub EXCEPT ![p] = [pc |-> "idle", msg |-> 0,
                                                    targets |-> {}, snap |-> {}]]
                      /\ snap' = (m :> pub[p].snap) @@ snap
                 ELSE /\ pub' = [pub EXCEPT ![p].targets = rest]
                      /\ UNCHANGED snap
    /\ UNCHANGED <<subscribers, created, chanClosed, closes, unsubCalls,
                   recvd, nextMsg>>

\* a consumer reads one payload from its queue (m, ok := <-messageChan)
ConsumerRead(ch) ==
    /\ panicked = "none"
    /\ ch \in created
    /\ chanBuf[ch] # <<>>
    /\ recvd' = [recvd EXCEPT ![ch] = Append(@, Head(chanBuf[ch]))]
    /\ chanBuf' = [chanBuf EXCEPT ![ch] = Tail(@)]
    /\ UNCHANGED <<subscribers, created, chanClosed, closes, unsubCalls, pub,
                   nextMsg, snap, dropped, panicked>>

\* the hub's contract operations, called by any client
Subscribe == \E ch \in Chans : addSubscriber(ch) /\ UNCHANGED nonHubVars
Unsubscribe == \E ch \in Chans : removeSubscriber(ch) /\ UNCHANGED nonHubVars
PublishBegin == \E p \in Pubs : PublishSnapshot(p) /\ UNCHANGED nonHubVars
PublishStep == \E p \in Pubs : PublishSend(p) /\ UNCHANGED nonHubVars
Consume == \E ch \in Chans : ConsumerRead(ch) /\ UNCHANGED nonHubVars

\* ------------------------------------------------------------------------
\* Storage engine
\* ------------------------------------------------------------------------
\* message IDs (TEXT PRIMARY KEY): an empty ID, two numeric strings whose
\* integer and byte orders differ, and a non-numeric one
Ids == {"", "9", "10", "a"}

\* SQLite's CAST(id AS INTEGER): the leading integer of the text, else 0
CastInt(id) == CASE id = "9" -> 9 [] id = "10" -> 10 [] OTHER -> 0

\* rank of an ID in SQLite's BINARY collation (byte order)
IdRank(id) == CASE id = "" -> 0 [] id = "10" -> 1 [] id = "9" -> 2 [] OTHER -> 3

ZeroPos == [ts |-> 0, rowid |-> 0]

StoreInit ==
    /\ db = "open"
    /\ messages = {}

\* the rowid SQLite gives a new row of a table without AUTOINCREMENT
NextRowid(msgs) ==
    IF msgs = {} THEN 1
    ELSE (CHOOSE r \in msgs : \A q \in msgs : q.rowid <= r.rowid).rowid + 1

\* Store.InsertMessage: the INSERT fails on a nil handle and on a duplicate
\* primary key; otherwise the row is added with the caller's timestamp
InsertOk(handle, msgs, m) == handle = "open" /\ \A r \in msgs : r.id # m.id
InsertMessageReplace(handle, msgs, m) ==
    IF handle = "open"
      THEN {r \in msgs : r.id # m.id}
           \cup {[rowid |-> NextRowid(msgs), id |-> m.id, ts |-> m.ts,
                  username |-> m.username, platform |-> m.platform,
                  text |-> m.text, emotes |-> m.emotes, raw |-> m.raw]}
      ELSE msgs
InsertMessage(handle, msgs, m) ==
    IF InsertOk(handle, msgs, m)
      THEN msgs \cup {[rowid |-> NextRowid(msgs), id |-> m.id, ts |-> m.ts,
                       username |-> m.username, platform |-> m.platform,
                       text |-> m.text, emotes |-> m.emotes, raw |-> m.raw]}
      ELSE msgs

\* the WHERE clause of TailNext: ts > ? OR (ts = ? AND rowid > ?)
TailAfter(r, after) ==
    r.ts > after.ts \/ (r.ts = after.ts /\ r.rowid > after.rowid)

\* ORDER BY ts ASC, rowid ASC
TailLess(a, b) == a.ts < b.ts \/ (a.ts = b.ts /\ a.rowid < b.rowid)

RECURSIVE TailSorted(_)
TailSorted(S) ==
    IF S = {} THEN <<>>
    ELSE LET first == CHOOSE r \in S : \A q \in S \ {r} : TailLess(r, q)
         IN <<first>> \o TailSorted(S \ {first})

Take(s, n) == IF Len(s) <= n THEN s ELSE SubSeq(s, 1, n)

\* limit <= 0 falls back to 500
DefaultTailLimit == 500
EffLimit(limit) == IF limit <= 0 THEN DefaultTailLimit ELSE limit

\* Store.TailNext: up to limit rows strictly after the position, ascending,
\* and the position of the last row returned (the given one if none)
TailNextRows(msgs, after, limit) ==
    Take(TailSorted({r \in msgs : TailAfter(r, after)}), EffLimit(limit))
TailNextPosZero(batch, after) ==
    IF batch = <<>> THEN ZeroPos
    ELSE [ts |-> batch[Len(batch)].ts, rowid |-> batch[Len(batch)].rowid]
TailNextPos(batch, after) ==
    IF batch = <<>> THEN after
    ELSE [ts |-> batch[Len(batch)].ts, rowid |-> batch[Len(batch)].rowid]

\* Store.TailHead: ORDER BY ts DESC, rowid DESC LIMIT 1, zero on empty table
TailHead(msgs) ==
    IF msgs = {} THEN ZeroPos
    ELSE LET top == CHOOSE r \in msgs : \A q \in msgs \ {r} : TailLess(q, r)
         IN [ts |-> top.ts, rowid |-> top.rowid]

\* raw_json of a row: absent, or the JSON of a chat payload
NoRaw == [present |-> FALSE, author |-> "", message |-> "", source |-> "",
          emotes |-> 0]
RawOf(m) == [present |-> TRUE, author |-> m.author, message |-> m.message,
             source |-> m.source, emotes |-> m.emotes]

\* a row as another process hands it to InsertMessage
NewMessage(id, ts, text) ==
    [id |-> id, ts |-> ts, username |-> "u", platform |-> "Twitch",
     text |-> text, emotes |-> 0, raw |-> NoRaw]

\* ------------------------------------------------------------------------
\* A reader paging through TailNext from the zero cursor
\* ------------------------------------------------------------------------
TailInit ==
    /\ cursor = ZeroPos
    /\ returned = <<>>
    /\ tailCalls = 0

\* some writer calls InsertMessage with any ID and any timestamp
WriterInsert ==
    \E id \in Ids, ts \in 1..MaxTS :
        /\ messages' = InsertMessage(db, messages, NewMessage(id, ts, "A"))
        /\ UNCHANGED <<db, tailVars, hubVars, envVars, tailerVars, streamVars,
                       restVars>>

\* the reader calls TailNext with the cursor of its previous call
ReaderTailNext ==
    /\ tailCalls < MaxTailCalls
    /\ \E limit \in 0..MaxLimit :
         LET batch == TailNextRows(messages, cursor, limit)
         IN /\ returned' = returned \o batch
            /\ cursor' = TailNextPos(batch, cursor)
    /\ tailCalls' = tailCalls + 1
    /\ UNCHANGED <<storeVars, hubVars, envVars, tailerVars, streamVars>>
    /\ UNCHANGED restVars

\* ------------------------------------------------------------------------
\* Message enrichment (routes/chat.go)
\* ------------------------------------------------------------------------
\* strings.TrimSpace on the strings of the model
TrimSpace(str) == CASE str = " " -> "" [] str = " A " -> "A" [] OTHER -> str

\* normalizeSource: trim, then canonical case for the two known platforms
normalizeSource(src) ==
    LET t == TrimSpace(src)
    IN CASE t \in {"twitch", "Twitch"} -> "Twitch"
         [] t \in {"youtube", "YouTube"} -> "YouTube"
         [] OTHER -> t

\* activeUIConfig.hideYouTubeAt (default)
HideYouTubeAt == TRUE
StripAt(author) == IF author = "@u" THEN "u" ELSE author

\* Message.normalize
normalize(m) ==
    LET src == normalizeSource(m.source)
        a == TrimSpace(m.author)
    IN [m EXCEPT !.author = IF HideYouTubeAt /\ src = "YouTube" THEN StripAt(a) ELSE a,
                 !.message = TrimSpace(m.message),
                 !.source = src]

\* the drop test of processChatOutput, BroadcastFromTailer and
\* sanitizeMessagePayload
ShouldDropNoText(m) == dropEmpty /\ m.source = ""
ShouldDrop(m) == dropEmpty /\ (m.source = "" \/ m.message = "")

\* enrichTailerMessage: the raw payload if present, blanks filled from the
\* row's columns, then normalize
enrichTailerMessage(row) ==
    LET base == IF row.raw.present
                  THEN [author |-> row.raw.author, message |-> row.raw.message,
                        source |-> row.raw.source, emotes |-> row.raw.emotes]
                  ELSE [author |-> "", message |-> "", source |-> "", emotes |-> row.emotes]
        filled == [base EXCEPT
                     !.author = IF @ = "" THEN row.username ELSE @,
                     !.message = IF @ = "" THEN row.text ELSE @,
                     !.source = IF @ = "" THEN row.platform ELSE @]
    IN normalize(filled)

\* broadcastChatMessage run to completion with no interleaved hub call:
\* one non-blocking send per registered queue
BroadcastBufsFront(payload) ==
    [ch \in Chans |->
        IF ch \in subscribers /\ ChanHasRoom(chanBuf[ch])
          THEN <<payload>> \o chanBuf[ch] ELSE chanBuf[ch]]
BroadcastBufs(payload) ==
    [ch \in Chans |->
        IF ch \in subscribers /\ ChanHasRoom(chanBuf[ch])
          THEN Append(chanBuf[ch], payload) ELSE chanBuf[ch]]
BroadcastDrops(payload) ==
    {[ch |-> ch, msg |-> payload, len |-> Len(chanBuf[ch])] :
        ch \in {c \in subscribers : ~ChanHasRoom(chanBuf[c])}}

\* ------------------------------------------------------------------------
\* Change tailer
\* ------------------------------------------------------------------------
EnvInit ==
    /\ dropEmpty \in BOOLEAN
    /\ storeUp = TRUE

TailerInit ==
    /\ cfgPersist \in BOOLEAN
    /\ tpc = "idle"
    /\ last = ZeroPos
    /\ persisted = ZeroPos
    /\ offsetFile = ZeroPos
    /\ seen = {}
    /\ toBroadcast = <<>>
    /\ handed = <<>>
    /\ fetched = {}
    /\ lastTick = "none"
    /\ outageRows = {}
    /\ crashes = 0
    /\ atStart = {}
    /\ seenEpoch = 0
    /\ tickEpoch = 0
    /\ handedEpoch = <<>>
    /\ replaced = 0

\* the environment-fixed parts of the other subsystems
EnvFixed == dropEmpty = TRUE /\ storeUp = TRUE
TailerFixed ==
    /\ cfgPersist = FALSE /\ tpc = "idle" /\ last = ZeroPos
    /\ persisted = ZeroPos /\ offsetFile = ZeroPos /\ seen = {}
    /\ toBroadcast = <<>> /\ handed = <<>> /\ fetched = {}
    /\ lastTick = "none" /\ outageRows = {} /\ crashes = 0
    /\ atStart = {} /\ seenEpoch = 0 /\ tickEpoch = 0
    /\ handedEpoch = <<>> /\ replaced = 0

\* Runner.persistPosition with the outcome of writeOffset: nothing to do
\* without persistence or when the position is already persisted; a failed
\* write leaves file and r.persisted alone
PersistedAfter(newLast, writeOk) ==
    IF cfgPersist /\ newLast # persisted /\ writeOk THEN newLast ELSE persisted
OffsetFileAfter(newLast, writeOk) ==
    IF cfgPersist /\ newLast # persisted /\ writeOk THEN newLast ELSE offsetFile

\* the IDs another process may give its next row: the empty ID, or the
\* first unused one (the tailer treats all non-empty IDs alike)
WriterIds(msgs) ==
    LET free == {id \in Ids \ {""} : \A r \in msgs : r.id # id}
    IN {""} \cup {id \in free : \A o \in free : IdRank(id) <= IdRank(o)}

\* another process inserts a row into the messages table
ExternalInsert ==
    /\ Cardinality(messages) < MaxTailerRows
    /\ \E id \in WriterIds(messages), ts \in 1..MaxTS :
         LET m == NewMessage(id, ts, "A")
         IN /\ InsertOk(db, messages, m)
            /\ messages' = InsertMessage(db, messages, m)
            /\ outageRows' = IF storeUp \/ tpc \notin {"polling", "broadcast"}
                               THEN outageRows
                               ELSE outageRows \cup (messages' \ messages)
    /\ UNCHANGED <<db, hubVars, tailVars, envVars, cfgPersist, tpc, last,
                   persisted, offsetFile, seen, toBroadcast, handed, fetched,
                   lastTick, crashes, epochVars, streamVars>>
    /\ UNCHANGED restVars

\* another process deletes a row and inserts a row with the same ID again
\* (DELETE, then INSERT: the new row gets the next free rowid)
ExternalReplace ==
    /\ replaced < MaxReplace
    /\ replaced' = replaced + 1
    /\ \E r \in messages, ts \in 1..MaxTS :
         /\ r.id # ""
         /\ messages' = InsertMessage(db, messages \ {r}, NewMessage(r.id, ts, "A"))
    /\ UNCHANGED <<db, hubVars, tailVars, envVars, cfgPersist, tpc, last,
                   persisted, offsetFile, seen, toBroadcast, handed, fetched,
                   lastTick, outageRows, crashes, atStart, seenEpoch,
                   tickEpoch, handedEpoch, streamVars>>
    /\ UNCHANGED restVars

\* the store starts or stops failing the tailer's queries
StoreOutage ==
    /\ storeUp' = ~storeUp
    /\ UNCHANGED <<dropEmpty, hubVars, storeVars, tailVars, tailerVars,
                   streamVars>>
    /\ UNCHANGED restVars

\* Runner.Start: TailHead, resume from a non-zero persisted offset, set
\* r.last, persist it and start the loop; a TailHead error ends Start
TailerStart ==
    /\ tpc = "idle"
    /\ IF ~storeUp
         THEN /\ tpc' = "failed"
              /\ UNCHANGED <<last, persisted, offsetFile, atStart>>
         ELSE \E writeOk \in BOOLEAN :
              LET resume == cfgPersist /\ offsetFile # ZeroPos
                  head == IF resume THEN offsetFile ELSE TailHead(messages)
                  pers == IF resume THEN offsetFile ELSE persisted
              IN /\ tpc' = "polling"
                 /\ atStart' = messages
                 /\ last' = head
                 /\ persisted' = IF cfgPersist /\ head # pers /\ writeOk THEN head ELSE pers
                 /\ offsetFile' = IF cfgPersist /\ head # pers /\ writeOk THEN head ELSE offsetFile
    /\ UNCHANGED <<hubVars, storeVars, tailVars, envVars, cfgPersist, seen,
                   toBroadcast, handed, fetched, lastTick, outageRows, crashes,
                   seenEpoch, tickEpoch, handedEpoch, replaced, streamVars>>
    /\ UNCHANGED restVars

\* the dedup loop of tick: rows with an empty or already seen ID are skipped
RECURSIVE Dedup(_, _)
DedupNoSeen(batch, seenIds) == SelectSeq(batch, LAMBDA m : m.id # "")
Dedup(batch, seenIds) ==
    IF batch = <<>> THEN <<>>
    ELSE LET m == Head(batch)
         IN IF m.id = "" \/ m.id \in seenIds
              THEN Dedup(Tail(batch), seenIds)
              ELSE <<m>> \o Dedup(Tail(batch), seenIds \cup {m.id})

SeqIds(batch) == {batch[i].id : i \in 1..Len(batch)}
SeqSet(batch) == {batch[i] : i \in 1..Len(batch)}

\* the end of the dedup loop: r.seen is replaced by an empty map once it holds
\* more than the cap
SeenAfterKept(seen1) == seen1
SeenAfter(seen1) == IF Cardinality(seen1) > SeenCap THEN {} ELSE seen1

\* the position tick stores in r.last after a successful TailNext
TickLast(batch, after) == TailNextPos(batch, after)

\* Runner.tick up to the broadcast loop: TailNext; on error log and return;
\* else r.last = last, persistPosition, dedup against r.seen, clear r.seen
\* past the cap
TickFetch ==
    /\ tpc = "polling"
    /\ IF ~storeUp
         THEN /\ lastTick' = "error"
              /\ UNCHANGED <<tpc, last, persisted, offsetFile, seen,
                             toBroadcast, fetched, seenEpoch, tickEpoch>>
         ELSE \E writeOk \in BOOLEAN :
              LET batch == TailNextRows(messages, last, TailBatch)
                  newLast == TickLast(batch, last)
                  fresh == Dedup(batch, seen)
                  seen1 == seen \cup SeqIds(fresh)
              IN /\ lastTick' = "ok"
                 /\ last' = newLast
                 /\ persisted' = PersistedAfter(newLast, writeOk)
                 /\ offsetFile' = OffsetFileAfter(newLast, writeOk)
                 /\ fetched' = fetched \cup SeqSet(batch)
                 /\ seen' = SeenAfter(seen1)
                 /\ tickEpoch' = seenEpoch
                 /\ seenEpoch' = IF Cardinality(seen1) > SeenCap
                                   THEN seenEpoch + 1 ELSE seenEpoch
                 /\ toBroadcast' = fresh
                 /\ tpc' = IF fresh = <<>> THEN "polling" ELSE "broadcast"
    /\ UNCHANGED <<hubVars, storeVars, tailVars, envVars, cfgPersist, handed,
                   outageRows, crashes, atStart, handedEpoch, replaced,
                   streamVars>>
    /\ UNCHANGED restVars

\* one iteration of tick's broadcast loop: BroadcastFromTailer enriches the
\* row, drops it if empty, else publishes its payload
TickBroadcast ==
    /\ tpc = "broadcast"
    /\ LET row == Head(toBroadcast)
           msg == enrichTailerMessage(row)
       IN /\ handed' = Append(handed, row)
          /\ handedEpoch' = Append(handedEpoch,
                                   [run |-> crashes, epoch |-> tickEpoch])
          /\ toBroadcast' = Tail(toBroadcast)
          /\ tpc' = IF Tail(toBroadcast) = <<>> THEN "polling" ELSE "broadcast"
          /\ IF ShouldDrop(msg)
               THEN UNCHANGED <<chanBuf, dropped>>
               ELSE /\ chanBuf' = BroadcastBufs(RawOf(msg))
                    /\ dropped' = dropped \cup BroadcastDrops(RawOf(msg))
    /\ UNCHANGED <<subscribers, created, chanClosed, closes, unsubCalls, recvd,
                   pub, nextMsg, snap, panicked, storeVars, tailVars, envVars,
                   cfgPersist, last, persisted, offsetFile, seen, fetched,
                   lastTick, outageRows, crashes, atStart, seenEpoch,
                   tickEpoch, replaced, streamVars>>
    /\ UNCHANGED restVars

\* the process dies and is started again: memory is lost, the offset file
\* and the database stay
Crash ==
    /\ tpc \in {"polling", "broadcast"}
    /\ crashes < MaxCrashes
    /\ crashes' = crashes + 1
    /\ tpc' = "idle"
    /\ last' = ZeroPos
    /\ persisted' = ZeroPos
    /\ seen' = {}
    /\ toBroadcast' = <<>>
    /\ lastTick' = "none"
    /\ seenEpoch' = 0
    /\ tickEpoch' = 0
    /\ subscribers' = {}
    /\ created' = {}
    /\ chanBuf' = [c \in Chans |-> <<>>]
    /\ UNCHANGED <<chanClosed, closes, unsubCalls, recvd, pub, nextMsg, snap,
                   dropped, panicked, storeVars, tailVars, envVars, cfgPersist,
                   offsetFile, handed, fetched, outageRows, atStart,
                   handedEpoch, replaced, streamVars>>
    /\ UNCHANGED restVars

\* a viewer connects: its queue is registered
TailerSubscribe ==
    /\ addSubscriber(1)
    /\ UNCHANGED <<storeVars, tailVars, envVars, tailerVars, streamVars>>
    /\ UNCHANGED restVars

\* ------------------------------------------------------------------------
\* Live ingest and StreamChat (routes/chat.go)
\* ------------------------------------------------------------------------
\* texts of the harvester's non-empty lines, in the order it emits them
LineTexts == <<"A", "B", "C", "D">>

StreamInit ==
    /\ now = 1
    /\ ipc = "read"
    /\ ipayload = NoRaw
    /\ linesIn = 0
    /\ emptyLines = 0
    /\ published = {}
    /\ cstep = 1
    /\ histSeen = {}
    /\ tailerSent = {}
    /\ frames = <<>>

\* ORDER BY ts DESC, CAST(id AS INTEGER) DESC, id DESC of GetRecent
RecentBefore(a, b) ==
    \/ a.ts > b.ts
    \/ a.ts = b.ts /\ CastInt(a.id) > CastInt(b.id)
    \/ a.ts = b.ts /\ CastInt(a.id) = CastInt(b.id) /\ IdRank(a.id) > IdRank(b.id)

RECURSIVE RecentSorted(_)
RecentSorted(S) ==
    IF S = {} THEN <<>>
    ELSE LET first == CHOOSE r \in S : \A q \in S \ {r} : RecentBefore(r, q)
         IN <<first>> \o RecentSorted(S \ {first})

\* Store.GetRecent without time filters: newest first, LIMIT only if > 0
GetRecent(msgs, limit) ==
    IF limit > 0 THEN Take(RecentSorted(msgs), limit) ELSE RecentSorted(msgs)

Reverse(sq) == [i \in 1..Len(sq) |-> sq[Len(sq) + 1 - i]]

\* messagePayloadFromStorage: the raw payload if present, else a payload
\* built from the row's columns
messagePayloadFromStorage(row) ==
    IF row.raw.present
      THEN [author |-> row.raw.author, message |-> row.raw.message,
            source |-> row.raw.source, emotes |-> row.raw.emotes]
      ELSE normalize([author |-> row.username, message |-> row.text,
                      source |-> row.platform, emotes |-> 0])

\* the steps of StreamChat in program order: register the queue, replay
\* history, then start the writer goroutine
StreamChatStepsHistoryFirst == <<"history", "subscribe", "live">>
StreamChatSteps == <<"subscribe", "history", "live">>

AtStep(name) == cstep <= Len(StreamChatSteps) /\ StreamChatSteps[cstep] = name

\* the history loop of StreamChat: rows oldest first, each sanitized,
\* dropped rows skipped, the others written as frames
RECURSIVE HistoryFrames(_)
HistoryFrames(rows) ==
    IF rows = <<>> THEN <<>>
    ELSE LET p == normalize(messagePayloadFromStorage(Head(rows)))
         IN IF ShouldDrop(p)
              THEN HistoryFrames(Tail(rows))
              ELSE <<[kind |-> "hist", text |-> p.message, emotes |-> p.emotes,
                      rowid |-> Head(rows).rowid]>>
                   \o HistoryFrames(Tail(rows))

\* the clock advances
Tick ==
    /\ now < MaxTS
    /\ now' = now + 1
    /\ UNCHANGED <<ipc, ipayload, linesIn, emptyLines, published, cstep,
                   histSeen, tailerSent, frames, hubVars, storeVars, tailVars, envVars,
                   tailerVars>>
    /\ UNCHANGED restVars

\* processChatOutput up to the insert: decode a line, normalize, drop it if
\* empty, else insert the row (fresh UUID, current time) into the store; an
\* insert error (the store is failing) is logged and the loop goes on to the
\* broadcast
IngestLineOf(texts, maxLines) ==
    /\ ipc = "read"
    /\ \E text \in texts, id \in Ids \ {""} :
         LET msg == normalize([author |-> "u", message |-> text,
                               source |-> normalizeSource("twitch"), emotes |-> 0])
             row == [id |-> id, ts |-> now, username |-> msg.author,
                     platform |-> msg.source, text |-> msg.message,
                     emotes |-> msg.emotes, raw |-> RawOf(msg)]
         IN /\ \A r \in messages : r.id # id
            /\ IF TrimSpace(text) = ""
                 THEN emptyLines < MaxEmptyLines /\ emptyLines' = emptyLines + 1
                      /\ UNCHANGED linesIn
                 ELSE linesIn < maxLines /\ linesIn' = linesIn + 1
                      /\ UNCHANGED emptyLines
            /\ IF ShouldDrop(msg)
                 THEN UNCHANGED <<ipc, ipayload, messages>>
                 ELSE /\ messages' = IF storeUp THEN InsertMessage(db, messages, row)
                                                 ELSE messages
                      /\ ipayload' = RawOf(msg)
                      /\ ipc' = "bcast"
    /\ UNCHANGED <<db, now, published, cstep, histSeen, tailerSent, frames, hubVars,
                   tailVars, envVars, tailerVars>>
    /\ UNCHANGED restVars

\* the harvester emits its next line
IngestLine == IngestLineOf({LineTexts[linesIn + 1]}, MaxLines)

\* the harvester emits a line, possibly one with an empty or blank text
IngestAnyLine == IngestLineOf({"", " ", LineTexts[linesIn + 1]}, 1)

\* processChatOutput after the insert: broadcastChatMessage(payload)
IngestBroadcast ==
    /\ ipc = "bcast"
    /\ chanBuf' = BroadcastBufs(ipayload)
    /\ dropped' = dropped \cup BroadcastDrops(ipayload)
    /\ published' = published \cup {ipayload.message}
    /\ ipc' = "read"
    /\ ipayload' = NoRaw
    /\ UNCHANGED <<subscribers, created, chanClosed, closes, unsubCalls, recvd,
                   pub, nextMsg, snap, panicked, now, linesIn, emptyLines,
                   cstep, histSeen, tailerSent, frames, storeVars, tailVars, envVars,
                   tailerVars>>
    /\ UNCHANGED restVars

\* BroadcastFromTailer called by the tailer for a stored row it has not
\* broadcast yet: enrich, drop if empty, else publish
TailerBroadcastRow ==
    /\ \E row \in messages :
         LET msg == enrichTailerMessage(row)
         IN /\ row.rowid \notin tailerSent
            /\ tailerSent' = tailerSent \cup {row.rowid}
            /\ IF ShouldDrop(msg)
                 THEN UNCHANGED <<chanBuf, dropped>>
                 ELSE /\ chanBuf' = BroadcastBufs(RawOf(msg))
                      /\ dropped' = dropped \cup BroadcastDrops(RawOf(msg))
    /\ UNCHANGED <<subscribers, created, chanClosed, closes, unsubCalls, recvd,
                   pub, nextMsg, snap, panicked, now, ipc, ipayload, linesIn,
                   emptyLines, published, cstep, histSeen, frames, storeVars,
                   tailVars, envVars, tailerVars>>
    /\ UNCHANGED restVars

\* another process writes a row with an empty text directly into the table
ExternalEmptyRow ==
    /\ \A r \in messages : r.text # ""
    /\ \E id \in Ids \ {""} :
         /\ \A r \in messages : r.id # id
         /\ messages' = InsertMessage(db, messages, NewMessage(id, now, ""))
    /\ UNCHANGED <<db, hubVars, tailVars, envVars, tailerVars, streamVars>>
    /\ UNCHANGED restVars

\* StreamChat: messageChan := addSubscriber()
ConnSubscribe ==
    /\ AtStep("subscribe")
    /\ addSubscriber(1)
    /\ cstep' = cstep + 1
    /\ UNCHANGED <<now, ipc, ipayload, linesIn, emptyLines, published,
                   histSeen, tailerSent, frames, storeVars, tailVars, envVars, tailerVars>>
    /\ UNCHANGED restVars

\* StreamChat: GetRecent(Limit: 100) and the replay loop, oldest first
ConnHistory ==
    /\ AtStep("history")
    /\ frames' = frames \o HistoryFrames(Reverse(GetRecent(messages, HistLimit)))
    /\ histSeen' = messages
    /\ cstep' = cstep + 1
    /\ UNCHANGED <<now, ipc, ipayload, linesIn, emptyLines, published,
                   tailerSent, hubVars, storeVars, tailVars, envVars,
                   tailerVars>>
    /\ UNCHANGED restVars

\* StreamChat writer goroutine: take a payload from the queue, sanitize it,
\* skip it if dropped, else write it as a frame
ConnLive ==
    /\ AtStep("live")
    /\ 1 \in subscribers
    /\ chanBuf[1] # <<>>
    /\ LET p == normalize(Head(chanBuf[1]))
       IN frames' = IF ShouldDrop(p) THEN frames
                    ELSE Append(frames, [kind |-> "live", text |-> p.message,
                                         emotes |-> p.emotes, rowid |-> 0])
    /\ recvd' = [recvd EXCEPT ![1] = Append(@, Head(chanBuf[1]))]
    /\ chanBuf' = [chanBuf EXCEPT ![1] = Tail(@)]
    /\ UNCHANGED <<subscribers, created, chanClosed, closes, unsubCalls, pub,
                   nextMsg, snap, dropped, panicked, now, ipc, ipayload,
                   linesIn, emptyLines, published, cstep, histSeen, tailerSent,
                   storeVars, tailVars, envVars, tailerVars>>
    /\ UNCHANGED restVars

\* StreamChat returns (read error, client close): deferred removeSubscriber
ConnClose ==
    /\ AtStep("live")
    /\ 1 \in subscribers
    /\ removeSubscriber(1)
    /\ cstep' = Len(StreamChatSteps) + 1
    /\ UNCHANGED <<now, ipc, ipayload, linesIn, emptyLines, published,
                   histSeen, tailerSent, frames, storeVars, tailVars, envVars, tailerVars>>
    /\ UNCHANGED restVars

\* ------------------------------------------------------------------------
\* The exit paths of StreamChat and its writer goroutine (routes/chat.go)
\* ------------------------------------------------------------------------
ConnFixed ==
    /\ hexit = ""
    /\ wexit = ""
    /\ doneClosed = FALSE
    /\ connClosed = FALSE

ConnFrame ==
    UNCHANGED <<gnastyVars, migVars, offsetVars, hmsg, prow, liveOut,
                tailerOut, lastOut, lastOp, pagePc, pageBefore, visited,
                tokVars>>

\* the writer goroutine is started after the history replay, before the
\* read loop
WriterStarted == AtStep("live") \/ hexit = "read error"
WriterRunning == WriterStarted /\ wexit = ""

\* the cases of the writer's select that make it return: <-done, and a
\* receive from the closed queue
WriterWakesNever(isDone, isClosed) == FALSE
WriterWakes(isDone, isClosed) == isDone \/ isClosed

\* the history loop: conn.WriteMessage fails on the k-th frame and StreamChat
\* returns; the deferred removeSubscriber and conn.Close run, the writer
\* goroutine was never started
HistoryWriteError ==
    /\ AtStep("history")
    /\ LET hf == HistoryFrames(Reverse(GetRecent(messages, HistLimit)))
       IN \E k \in 1..Len(hf) : frames' = frames \o SubSeq(hf, 1, k - 1)
    /\ histSeen' = messages
    /\ removeSubscriber(1)
    /\ cstep' = Len(StreamChatSteps) + 1
    /\ hexit' = "history write error"
    /\ connClosed' = TRUE
    /\ UNCHANGED <<wexit, doneClosed>>
    /\ UNCHANGED <<now, ipc, ipayload, linesIn, emptyLines, published,
                   tailerSent, storeVars, tailVars, envVars, tailerVars>>
    /\ ConnFrame

\* the writer goroutine forwards a payload of the queue
WriterForward == WriterRunning /\ ConnLive

\* a write of the writer goroutine fails (a payload taken from the queue, or
\* the keepalive or ping of the ticker): it logs and returns, the handler is
\* not told
WriterWriteError ==
    /\ WriterRunning
    /\ \/ /\ chanBuf[1] # <<>>
          /\ recvd' = [recvd EXCEPT ![1] = Append(@, Head(chanBuf[1]))]
          /\ chanBuf' = [chanBuf EXCEPT ![1] = Tail(@)]
       \/ UNCHANGED <<recvd, chanBuf>>
    /\ wexit' = "write error"
    /\ UNCHANGED <<hexit, doneClosed, connClosed>>
    /\ UNCHANGED <<subscribers, created, chanClosed, closes, unsubCalls, pub,
                   nextMsg, snap, dropped, panicked, storeVars, tailVars,
                   envVars, tailerVars, streamVars>>
    /\ ConnFrame

\* the read loop: conn.ReadMessage fails (client close, read error or the
\* read deadline): close(done), break, and the deferred removeSubscriber and
\* conn.Close run
ReadError ==
    /\ AtStep("live")
    /\ removeSubscriber(1)
    /\ cstep' = Len(StreamChatSteps) + 1
    /\ hexit' = "read error"
    /\ doneClosed' = TRUE
    /\ connClosed' = TRUE
    /\ UNCHANGED wexit
    /\ UNCHANGED <<now, ipc, ipayload, linesIn, emptyLines, published,
                   histSeen, tailerSent, frames, storeVars, tailVars, envVars,
                   tailerVars>>
    /\ ConnFrame

\* the writer goroutine takes the <-done case, or finds the queue closed
WriterReturn ==
    /\ WriterRunning
    /\ WriterWakes(doneClosed, chanClosed[1])
    /\ wexit' \in {"done", "queue closed"}
    /\ UNCHANGED <<hexit, doneClosed, connClosed>>
    /\ UNCHANGED <<hubVars, storeVars, tailVars, envVars, tailerVars, streamVars>>
    /\ ConnFrame

\* ------------------------------------------------------------------------
\* ingest supervisors: one loop goroutine per source, under either driver
\* ------------------------------------------------------------------------
Sources == 1..NSources

Drivers == {"gnasty", "chatdownloader"}

\* restarts one source may make: fewer when several sources run at once
RestartCap == IF Cardinality(urls) > 1 THEN MaxRestartsEach ELSE MaxRestarts

\* time.Second and 30 * time.Second, in seconds
DefaultBackoffBase == 1
DefaultBackoffMax == 30

\* the fixed time.Sleep of monitorAndRestartChatFetch, in seconds
FetchRestartDelay == 1

\* NewGnasty: the defaults of BackoffBase and BackoffMax, and max >= base
NewGnasty(cfgBase, cfgMax) ==
    LET base == IF cfgBase <= 0 THEN DefaultBackoffBase ELSE cfgBase
        max0 == IF cfgMax <= 0 THEN DefaultBackoffMax ELSE cfgMax
    IN [base |-> base, max |-> IF base > max0 THEN base ELSE max0]

nextBackoffNoCap(cur, base, max) ==
    IF cur < base THEN base ELSE cur * 2
nextBackoff(cur, base, max) ==
    IF cur < base THEN base
    ELSE IF cur * 2 > max THEN max ELSE cur * 2

\* the assignment after a successful cmd.Start()
BackoffAfterStart(cur, base) == base

\* the two non-blocking reads of ctx.Done() in run
ctxDoneNever(c) == FALSE
ctxDone(c) == c

\* what a stdout line is after bytes.TrimSpace: a JSON value, nothing, or
\* bytes json.Unmarshal rejects
LineKinds == {"json", "empty", "bad"}

\* handleLine: the calls of cfg.Insert after line number n of kind `kind`
handleLineAll(fwd, n, kind, callback, insErr) ==
    IF kind = "empty" THEN fwd
    ELSE IF callback THEN Append(fwd, [n |-> n, err |-> insErr])
    ELSE fwd
handleLine(fwd, n, kind, callback, insErr) ==
    IF kind = "empty" THEN fwd
    ELSE IF kind = "bad" THEN fwd
    ELSE IF callback THEN Append(fwd, [n |-> n, err |-> insErr])
    ELSE fwd

\* the state both drivers start from, for `us` the configured URLs
SupervisorInit(us, drv) ==
    /\ urls = us
    /\ driver = drv
    /\ gpc = [s \in Sources |->
                 IF s \in us /\ drv = "gnasty" THEN "top" ELSE "none"]
    /\ backoff = [s \in Sources |-> gcfg.base]
    /\ sleepWhy = [s \in Sources |-> "none"]
    /\ delays = [s \in Sources |-> <<>>]
    /\ cancelled = FALSE
    /\ waited = FALSE
    /\ glines = [s \in Sources |-> <<>>]
    /\ forwarded = [s \in Sources |-> <<>>]
    /\ fpc = [s \in Sources |->
                 IF s \in us /\ drv = "chatdownloader" THEN "start" ELSE "none"]
    /\ fdelays = [s \in Sources |-> <<>>]
    /\ procExited = FALSE
    /\ mpc = "serving"
    /\ epc = [s \in Sources |-> "idle"]

GnastyInit ==
    /\ \E b \in 0..MaxCfgBase, m \in 0..MaxCfgMax : gcfg = NewGnasty(b, m)
    /\ hasInsert = FALSE
    /\ SupervisorInit({1}, "gnasty")

GnastyFixed ==
    /\ gcfg = NewGnasty(0, 0)
    /\ hasInsert = FALSE
    /\ SupervisorInit({1}, "gnasty")

OtherFrame ==
    UNCHANGED <<hubVars, storeVars, tailVars, envVars, tailerVars,
                streamVars, migVars, offsetVars, apiVars>>

\* run, from the top of the loop to the outcome of cmd.Start()
RunStartOf(s) ==
    /\ s \in urls
    /\ ~procExited
    /\ gpc[s] = "top"
    /\ IF ctxDone(cancelled)
         THEN /\ gpc' = [gpc EXCEPT ![s] = "returned"]
              /\ UNCHANGED <<backoff, sleepWhy>>
         ELSE /\ Len(delays[s]) < RestartCap
              /\ \E started \in BOOLEAN :
                   IF started
                     THEN /\ backoff' = [backoff EXCEPT ![s] =
                                BackoffAfterStart(backoff[s], gcfg.base)]
                          /\ gpc' = [gpc EXCEPT ![s] = "running"]
                          /\ UNCHANGED sleepWhy
                     ELSE /\ gpc' = [gpc EXCEPT ![s] = "sleep"]
                          /\ sleepWhy' = [sleepWhy EXCEPT ![s] = "startfail"]
                          /\ UNCHANGED backoff
    /\ UNCHANGED <<gcfg, delays, cancelled, hasInsert, supVars>>
    /\ OtherFrame

RunStart == \E s \in Sources : RunStartOf(s)

\* run, one turn of the stdout loop: ReadBytes, then handleLine
RunReadLineOf(s) ==
    /\ s \in urls
    /\ ~procExited
    /\ gpc[s] = "running"
    /\ Len(glines[s]) < MaxGLines
    /\ \E kind \in LineKinds, insErr \in BOOLEAN :
         /\ glines' = [glines EXCEPT ![s] = Append(@, kind)]
         /\ forwarded' = [forwarded EXCEPT ![s] =
                handleLine(@, Len(glines[s]) + 1, kind, hasInsert,
                           insErr /\ hasInsert /\ kind # "empty")]
    /\ UNCHANGED <<gcfg, gpc, backoff, sleepWhy, delays, cancelled, hasInsert,
                   urls, driver, waited, fpc, fdelays, procExited, mpc, epc>>
    /\ OtherFrame

RunReadLine == \E s \in Sources : RunReadLineOf(s)

\* run, from the end of the subprocess's output to the check after cmd.Wait()
RunExitOf(s) ==
    /\ s \in urls
    /\ ~procExited
    /\ gpc[s] = "running"
    /\ IF ctxDone(cancelled)
         THEN /\ gpc' = [gpc EXCEPT ![s] = "returned"]
              /\ UNCHANGED sleepWhy
         ELSE /\ gpc' = [gpc EXCEPT ![s] = "sleep"]
              /\ sleepWhy' = [sleepWhy EXCEPT ![s] = "exit"]
    /\ UNCHANGED <<gcfg, backoff, delays, cancelled, hasInsert, supVars>>
    /\ OtherFrame

RunExit == \E s \in Sources : RunExitOf(s)

\* sleepWithContext returns true: the timer fired, then backoff is advanced
RunSleepOf(s) ==
    /\ s \in urls
    /\ ~procExited
    /\ gpc[s] = "sleep"
    /\ delays' = [delays EXCEPT ![s] =
                     Append(@, [d |-> backoff[s], why |-> sleepWhy[s]])]
    /\ backoff' = [backoff EXCEPT ![s] =
                      nextBackoff(backoff[s], gcfg.base, gcfg.max)]
    /\ gpc' = [gpc EXCEPT ![s] = "top"]
    /\ UNCHANGED <<gcfg, sleepWhy, cancelled, hasInsert, supVars>>
    /\ OtherFrame

RunSleep == \E s \in Sources : RunSleepOf(s)

\* sleepWithContext returns false: ctx.Done() won the select
RunSleepCancelledOf(s) ==
    /\ s \in urls
    /\ ~procExited
    /\ gpc[s] = "sleep"
    /\ cancelled
    /\ gpc' = [gpc EXCEPT ![s] = "returned"]
    /\ UNCHANGED <<gcfg, backoff, sleepWhy, delays, cancelled, hasInsert,
                   supVars>>
    /\ OtherFrame

RunSleepCancelled == \E s \in Sources : RunSleepCancelledOf(s)

\* the whole-system context is cancelled
CancelContext ==
    /\ ~cancelled
    /\ cancelled' = TRUE
    /\ UNCHANGED <<gcfg, gpc, backoff, sleepWhy, delays, hasInsert, supVars>>
    /\ OtherFrame

\* the WaitGroup counter: one Add(1) per URL in Start, one Done per return
wgCounter == Cardinality({s \in urls : gpc[s] # "returned"})

\* Wait: g.wg.Wait() returns when the counter is zero
GnastyWait ==
    /\ driver = "gnasty"
    /\ ~waited
    /\ wgCounter = 0
    /\ waited' = TRUE
    /\ UNCHANGED <<gcfg, gpc, backoff, sleepWhy, delays, cancelled, hasInsert,
                   urls, driver, glines, forwarded, fpc, fdelays, procExited, mpc, epc>>
    /\ OtherFrame

\* startChatFetch: log.Fatal ends the process when the pipe or the start fails
FetchStartOf(s) ==
    /\ s \in urls
    /\ ~procExited
    /\ fpc[s] = "start"
    /\ Len(fdelays[s]) < RestartCap
    /\ \E started \in BOOLEAN :
         IF started
           THEN fpc' = [fpc EXCEPT ![s] = "running"] /\ UNCHANGED procExited
           ELSE procExited' = TRUE /\ UNCHANGED fpc
    /\ UNCHANGED <<gcfg, gpc, backoff, sleepWhy, delays, cancelled, hasInsert,
                   urls, driver, waited, glines, forwarded, fdelays, mpc, epc>>
    /\ OtherFrame

FetchStart == \E s \in Sources : FetchStartOf(s)

\* monitorAndRestartChatFetch: cmd.Wait() returns
FetchExitOf(s) ==
    /\ s \in urls
    /\ ~procExited
    /\ fpc[s] = "running"
    /\ fpc' = [fpc EXCEPT ![s] = "sleep"]
    /\ UNCHANGED <<gcfg, gpc, backoff, sleepWhy, delays, cancelled, hasInsert,
                   urls, driver, waited, glines, forwarded, fdelays,
                   procExited, mpc, epc>>
    /\ OtherFrame

FetchExit == \E s \in Sources : FetchExitOf(s)

\* monitorAndRestartChatFetch: time.Sleep returns, back to the top
FetchSleepOf(s) ==
    /\ s \in urls
    /\ ~procExited
    /\ fpc[s] = "sleep"
    /\ fdelays' = [fdelays EXCEPT ![s] = Append(@, FetchRestartDelay)]
    /\ fpc' = [fpc EXCEPT ![s] = "start"]
    /\ UNCHANGED <<gcfg, gpc, backoff, sleepWhy, delays, cancelled, hasInsert,
                   urls, driver, waited, glines, forwarded, procExited, mpc, epc>>
    /\ OtherFrame

FetchSleep == \E s \in Sources : FetchSleepOf(s)

\* main: SIGINT or SIGTERM arrives on the signal channel, srv.Shutdown
\* begins with its 15 s deadline
MainSignal ==
    /\ ~procExited
    /\ mpc = "serving"
    /\ mpc' = "shutdown"
    /\ UNCHANGED <<gcfg, gpc, backoff, sleepWhy, delays, cancelled, hasInsert,
                   urls, driver, waited, glines, forwarded, fpc, fdelays,
                   procExited, epc>>
    /\ OtherFrame

\* main: srv.Shutdown has returned, os.Exit(0) ends the process at once: no
\* deferred call runs and baseCtx, context.Background(), is never cancelled
MainExit ==
    /\ ~procExited
    /\ mpc = "shutdown"
    /\ mpc' = "exited"
    /\ procExited' = TRUE
    /\ UNCHANGED <<gcfg, gpc, backoff, sleepWhy, delays, cancelled, hasInsert,
                   urls, driver, waited, glines, forwarded, fpc, fdelays, epc>>
    /\ OtherFrame

\* what else runs in the process while main waits for the signal: the
\* tailer is started, viewers connect, payloads are published
MainTailerStart == ~procExited /\ TailerStart
ViewerConnect == ~procExited /\ Subscribe
LivePublishBegin == ~procExited /\ PublishBegin
LivePublishStep == ~procExited /\ PublishStep

\* ------------------------------------------------------------------------
\* processChatOutput of source s reaches tokenizer.EmoteCache[e.Name] = e:
\* a plain map assignment under no lock. When another goroutine is inside
\* an assignment to the same map, the Go runtime either detects it and ends
\* the process ("fatal error: concurrent map writes") or does not
EmoteCacheWriteBegin ==
    \E s \in Sources :
        /\ panicked = "none"
        /\ epc[s] = "idle"
        /\ epc' = [epc EXCEPT ![s] = "write"]
        /\ IF \E o \in Sources \ {s} : epc[o] = "write"
             THEN panicked' \in {"none", "concurrent map writes"}
             ELSE UNCHANGED panicked
        /\ UNCHANGED <<subscribers, created, chanBuf, chanClosed, closes,
                       unsubCalls, recvd, pub, nextMsg, snap, dropped>>
        /\ UNCHANGED <<gcfg, gpc, backoff, sleepWhy, delays, cancelled,
                       hasInsert, urls, driver, waited, glines, forwarded, fpc,
                       fdelays, procExited, mpc>>
        /\ UNCHANGED <<storeVars, tailVars, envVars, tailerVars, streamVars,
                       migVars, offsetVars, apiVars>>

\* the map assignment of source s returns
EmoteCacheWriteEnd ==
    \E s \in Sources :
        /\ panicked = "none"
        /\ epc[s] = "write"
        /\ epc' = [epc EXCEPT ![s] = "idle"]
        /\ UNCHANGED <<gcfg, gpc, backoff, sleepWhy, delays, cancelled,
                       hasInsert, urls, driver, waited, glines, forwarded, fpc,
                       fdelays, procExited, mpc>>
        /\ OtherFrame

\* Store.Init / Store.Close on one database path, and the migrations
\* ------------------------------------------------------------------------
StoreIds == 1..2
Modes == {"persistent", "ephemeral"}

\* the embedded migrations, in the order fs.ReadDir lists them
MigrationFiles == <<"0001_init.sql", "0002_sessions.sql">>
MigrationNames == {MigrationFiles[i] : i \in 1..Len(MigrationFiles)}

\* the tables a migration's CREATE TABLE IF NOT EXISTS statements create
MigrationTables(name) ==
    IF name = "0001_init.sql" THEN {"messages"} ELSE {"sessions"}

NoFile ==
    [exists |-> FALSE, migrations |-> {}, tables |-> {},
     applied |-> [n \in MigrationNames |-> 0]]

NewStore == [mode |-> "persistent", inited |-> FALSE, db |-> "nil", err |-> "none"]

BenignErrors ==
    {"duplicate column name", "already exists", "duplicate column",
     "not unique", "constraint failed: migrations.name"}
isBenignMigrationError(err) == err \in BenignErrors

\* SELECT COUNT(1) FROM migrations WHERE name = ?, and the test n > 0
AlreadyAppliedNever(table, name) == FALSE
AlreadyApplied(table, name) == name \in table

\* INSERT INTO migrations(name, applied_at): name is the PRIMARY KEY
RecordMigration(table, name) ==
    IF name \in table
      THEN [table |-> table, err |-> "constraint failed: migrations.name"]
      ELSE [table |-> table \cup {name}, err |-> "none"]

\* one iteration of the loop over the migration files; execErr is what
\* tx.ExecContext(sqlText) returned. Every statement of the embedded files
\* is CREATE ... IF NOT EXISTS, so it fails only for a reason that is not
\* "already exists"; the first statement has created the table when a later
\* one fails
ApplyOne(file, name, execErr) ==
    IF AlreadyApplied(file.migrations, name)
      THEN [file |-> file, err |-> "none"]
      ELSE IF execErr # "none" /\ ~isBenignMigrationError(execErr)
        THEN [file |-> [file EXCEPT !.tables = @ \cup MigrationTables(name)],
              err |-> execErr]
        ELSE LET rec == RecordMigration(file.migrations, name)
                 ran == IF execErr = "none"
                          THEN [file EXCEPT
                                  !.tables = @ \cup MigrationTables(name),
                                  !.applied = [@ EXCEPT ![name] = @ + 1]]
                          ELSE file
             IN [file |-> [ran EXCEPT !.migrations = rec.table],
                 err |-> IF isBenignMigrationError(rec.err)
                           THEN "none" ELSE rec.err]

\* the loop from file i on; failAt is the file whose SQL fails, 0 for none
RECURSIVE ApplyFrom(_, _, _)
ApplyFrom(file, i, failAt) ==
    IF i > Len(MigrationFiles) THEN [file |-> file, err |-> "none"]
    ELSE LET r == ApplyOne(file, MigrationFiles[i],
                           IF i = failAt THEN "disk I/O error" ELSE "none")
         IN IF r.err # "none" THEN r ELSE ApplyFrom(r.file, i + 1, failAt)

\* the transaction commits all the files or, on an error, none of them
applyMigrationsNoRollback(file, failAt) == ApplyFrom(file, 1, failAt)
applyMigrationsIdempotent(file, failAt) ==
    LET r == ApplyFrom(file, 1, failAt)
    IN IF r.err = "none" THEN r ELSE [file |-> file, err |-> r.err]

MigInit ==
    /\ dbFile = NoFile
    /\ stores = [s \in StoreIds |-> NewStore]
    /\ rowsAtClose = {}

MigFixed == MigInit

\* Close removes the file of an ephemeral store
CloseKeepsFile(mode) == mode # "ephemeral"

\* New(Config{Mode, Path}) and Init on the shared path; the second store is
\* created after the first one was closed
StoreOpen ==
    \E s \in StoreIds, mode \in Modes :
        /\ ~stores[s].inited
        /\ s > 1 => (stores[s - 1].inited /\ stores[s - 1].db = "nil")
        /\ \E failAt \in 0..Len(MigrationFiles) :
           LET r == applyMigrationsIdempotent([dbFile EXCEPT !.exists = TRUE],
                                              failAt)
           IN /\ dbFile' = r.file
              /\ stores' = [stores EXCEPT ![s] =
                     [mode |-> mode, inited |-> TRUE,
                      db |-> IF r.err = "none" THEN "open" ELSE "nil",
                      err |-> r.err]]
        /\ UNCHANGED <<rowsAtClose, messages, db>>
        /\ UNCHANGED <<hubVars, tailVars, envVars, tailerVars, streamVars,
                       gnastyVars, offsetVars, apiVars>>

\* InsertMessage through an open store
StoreInsert ==
    \E s \in StoreIds, id \in Ids, ts \in 1..MaxTS :
        /\ stores[s].db = "open"
        /\ "messages" \in dbFile.tables
        /\ Cardinality(messages) < MaxMigRows
        /\ messages' = InsertMessage(stores[s].db, messages, NewMessage(id, ts, "A"))
        /\ UNCHANGED <<db, migVars>>
        /\ UNCHANGED <<hubVars, tailVars, envVars, tailerVars, streamVars,
                       gnastyVars, offsetVars, apiVars>>

StoreClose ==
    \E s \in StoreIds :
        /\ stores[s].db = "open"
        /\ stores' = [stores EXCEPT ![s].db = "nil"]
        /\ rowsAtClose' = IF s = 1 THEN messages ELSE rowsAtClose
        /\ IF CloseKeepsFile(stores[s].mode)
             THEN UNCHANGED <<dbFile, messages>>
             ELSE /\ dbFile' = NoFile
                  /\ messages' = {}
        /\ UNCHANGED db
        /\ UNCHANGED <<hubVars, tailVars, envVars, tailerVars, streamVars,
                       gnastyVars, offsetVars, apiVars>>

\* ------------------------------------------------------------------------
\* persistPosition and writeOffset, one file-system call at a time
\* ------------------------------------------------------------------------
\* the cursors successive ticks store in r.last: row t inserted at time t
Positions == {[ts |-> t, rowid |-> t] : t \in 1..MaxTS}

\* a file that was created or truncated and not completely written
Partial == [ts |-> -1, rowid |-> -1]
\* no file
NoContent == ZeroPos

OffsetInit ==
    /\ tmpFile = NoContent
    /\ wpc = "idle"
    /\ wstate = ZeroPos
    /\ wres = "none"
    /\ wbefore = [file |-> NoContent, persisted |-> ZeroPos]
    /\ wrote = {}
    /\ observed = {}

OffsetFixed == OffsetInit

\* the frame of the actions of this section
OffsetFrame ==
    UNCHANGED <<hubVars, storeVars, tailVars, envVars, cfgPersist, tpc, seen,
                toBroadcast, handed, fetched, lastTick, outageRows, epochVars,
                streamVars, gnastyVars, migVars, apiVars>>

\* tick stores the cursor of a non-empty batch in r.last
OffsetAdvance ==
    /\ wpc = "idle"
    /\ \E pos \in Positions : TailAfter(pos, last) /\ last' = pos
    /\ UNCHANGED <<persisted, offsetFile, crashes, offsetVars>>
    /\ OffsetFrame

\* persistPosition up to the open of os.WriteFile(tmp): nothing to do when
\* r.last is already persisted; the open creates or truncates the tmp file,
\* or fails and writeOffset returns the error
PersistBegin ==
    /\ wpc = "idle"
    /\ cfgPersist
    /\ last # persisted
    /\ wstate' = last
    /\ wrote' = wrote \cup {last}
    /\ wbefore' = [file |-> offsetFile, persisted |-> persisted]
    /\ \E opened \in BOOLEAN :
         IF opened
           THEN /\ tmpFile' = Partial
                /\ wpc' = "tmp"
                /\ wres' = "none"
           ELSE /\ wres' = "err"
                /\ UNCHANGED <<tmpFile, wpc>>
    /\ UNCHANGED <<last, persisted, offsetFile, crashes, observed>>
    /\ OffsetFrame

\* where writeOffset goes after os.WriteFile returned: on to the rename, or
\* back to the caller with the error
AfterWriteFileAlways(ok) == "rename"
AfterWriteFile(ok) == IF ok THEN "rename" ELSE "idle"

\* the write and close of os.WriteFile(tmp)
WriteTmp ==
    /\ wpc = "tmp"
    /\ \E ok \in BOOLEAN :
         /\ tmpFile' = IF ok THEN wstate ELSE Partial
         /\ wpc' = AfterWriteFile(ok)
         /\ wres' = IF wpc' = "idle" THEN "err" ELSE "none"
    /\ UNCHANGED <<last, persisted, offsetFile, crashes, wstate, wbefore,
                   wrote, observed>>
    /\ OffsetFrame

\* os.Rename(tmp, path): the file at path becomes the tmp file in one step;
\* on failure the tmp file is removed; on success r.persisted = r.last
RenameTmp ==
    /\ wpc = "rename"
    /\ wpc' = "idle"
    /\ tmpFile' = NoContent
    /\ \E ok \in BOOLEAN :
         IF ok
           THEN /\ offsetFile' = tmpFile
                /\ persisted' = last
                /\ wres' = "ok"
           ELSE /\ wres' = "err"
                /\ UNCHANGED <<offsetFile, persisted>>
    /\ UNCHANGED <<last, crashes, wstate, wbefore, wrote, observed>>
    /\ OffsetFrame

\* the process dies at any point of the write and is started again: Start
\* reads the offset file and resumes from a non-zero cursor
OffsetCrash ==
    /\ crashes < MaxCrashes
    /\ crashes' = crashes + 1
    /\ wpc' = "idle"
    /\ wres' = "none"
    /\ observed' = observed \cup {offsetFile}
    /\ last' = offsetFile
    /\ persisted' = offsetFile
    /\ UNCHANGED <<offsetFile, tmpFile, wstate, wbefore, wrote>>
    /\ OffsetFrame

\* another process reads the file at OffsetPath
OffsetRead ==
    /\ offsetFile \notin observed
    /\ observed' = observed \cup {offsetFile}
    /\ UNCHANGED <<last, persisted, offsetFile, crashes, tmpFile, wpc, wstate,
                   wres, wbefore, wrote>>
    /\ OffsetFrame

\* ------------------------------------------------------------------------
\* The tokenizer: the colon scan and Iter (spec section 4.1; the package is
\* not among the sources, its tests are)
\* ------------------------------------------------------------------------
\* the characters of the texts: a letter, the letter of the emote name, the
\* separator and a blank
Chars == {"a", "e", ":", " "}
RECURSIVE TextsOfLen(_)
TextsOfLen(n) ==
    IF n = 0 THEN {<<>>}
    ELSE {Append(t, c) : t \in TextsOfLen(n - 1), c \in Chars}
Texts == UNION {TextsOfLen(n) : n \in 0..MaxText}

\* the emote cache: one name, wrapped in colons as YouTube's are
EmoteNames == {<<":", "e", ":">>}

\* the index of the first colon of s after position i, 0 if none
NextColon(s, i) ==
    IF \E j \in (i + 1)..Len(s) : s[j] = ":"
      THEN CHOOSE j \in (i + 1)..Len(s) :
               s[j] = ":" /\ \A k \in (i + 1)..(j - 1) : s[k] # ":"
      ELSE 0

\* the colon scan from position i: text up to the next colon is a segment; at
\* a colon, the word up to and with the next colon is one segment, a colon
\* followed at once by a colon is a segment of its own, and a colon with no
\* colon after it starts the last segment
RECURSIVE ScanColonSplit(_, _)
ScanColonSplit(s, i) ==
    IF i > Len(s) THEN <<>>
    ELSE LET j == NextColon(s, i)
         IN IF s[i] # ":"
              THEN IF j = 0 THEN <<SubSeq(s, i, Len(s))>>
                   ELSE <<SubSeq(s, i, j - 1)>> \o ScanColonSplit(s, j)
              ELSE IF j = 0 THEN <<SubSeq(s, i, Len(s))>>
                   ELSE IF j = i + 1 THEN <<SubSeq(s, i, i)>> \o ScanColonSplit(s, j)
                   ELSE <<SubSeq(s, i, i)>> \o ScanColonSplit(s, i + 1)
RECURSIVE ScanColon(_, _)
ScanColon(s, i) ==
    IF i > Len(s) THEN <<>>
    ELSE LET j == NextColon(s, i)
         IN IF s[i] # ":"
              THEN IF j = 0 THEN <<SubSeq(s, i, Len(s))>>
                   ELSE <<SubSeq(s, i, j - 1)>> \o ScanColon(s, j)
              ELSE IF j = 0 THEN <<SubSeq(s, i, Len(s))>>
                   ELSE IF j = i + 1 THEN <<SubSeq(s, i, i)>> \o ScanColon(s, j)
                   ELSE <<SubSeq(s, i, j)>> \o ScanColon(s, j + 1)

\* whitespace of a Text token: leading and trailing blanks go, a run of
\* blanks becomes one
RECURSIVE CollapseFrom(_, _, _)
CollapseFrom(s, i, acc) ==
    IF i > Len(s)
      THEN IF acc # <<>> /\ acc[Len(acc)] = " "
             THEN SubSeq(acc, 1, Len(acc) - 1) ELSE acc
      ELSE IF s[i] = " "
             THEN IF acc = <<>> \/ acc[Len(acc)] = " "
                    THEN CollapseFrom(s, i + 1, acc)
                    ELSE CollapseFrom(s, i + 1, Append(acc, " "))
             ELSE CollapseFrom(s, i + 1, Append(acc, s[i]))
CollapseKeepEnds(s) == s
Collapse(s) == CollapseFrom(s, 1, <<>>)

\* the running Text token is emitted when it holds more than blanks
FlushText(run) ==
    IF Collapse(run) = <<>> THEN <<>>
    ELSE <<[type |-> "Text", value |-> Collapse(run)]>>

\* Iter over the segments: a segment that is a known emote name is an Emote
\* token and ends the running Text token; any other segment joins it
RECURSIVE IterSegs(_, _, _)
IterSegs(segs, i, run) ==
    IF i > Len(segs) THEN FlushText(run)
    ELSE IF segs[i] \in EmoteNames
      THEN FlushText(run) \o <<[type |-> "Emote", value |-> segs[i]]>>
             \o IterSegs(segs, i + 1, <<>>)
      ELSE IterSegs(segs, i + 1, run \o segs[i])

TokInit ==
    /\ tokIn \in Texts
    /\ tokSegs = <<>>
    /\ tokOut = <<>>
    /\ tokPc = "start"

TokFixed ==
    /\ tokIn = <<>>
    /\ tokSegs = <<>>
    /\ tokOut = <<>>
    /\ tokPc = "start"

TokFrame ==
    UNCHANGED <<hubVars, storeVars, tailVars, envVars, tailerVars, streamVars,
                gnastyVars, migVars, offsetVars, hmsg, prow, liveOut,
                tailerOut, lastOut, lastOp, pagePc, pageBefore, visited,
                connVars>>

\* the scanner splits the text
TokScan ==
    /\ tokPc = "start"
    /\ tokSegs' = ScanColon(tokIn, 1)
    /\ tokPc' = "scanned"
    /\ UNCHANGED <<tokIn, tokOut>>
    /\ TokFrame

\* Iter classifies the segments and yields the tokens
TokEmit ==
    /\ tokPc = "scanned"
    /\ tokOut' = IterSegs(tokSegs, 1, <<>>)
    /\ tokPc' = "done"
    /\ UNCHANGED <<tokIn, tokSegs>>
    /\ TokFrame

\* ------------------------------------------------------------------------
\* One harvested message: live payload and tailer payload (routes/chat.go)
\* ------------------------------------------------------------------------
\* a Go slice: nil, or a list of items; JSON writes nil as null
NilSlice == [nil |-> TRUE, items |-> <<>>]
Slice(items) == [nil |-> FALSE, items |-> items]

\* the harvester's lines: author, text, the slices it may leave out, the
\* colour it may leave out; pref is the author's entry of userColorMap
\* ("" for none), url the source the line was read from
HarvestedMessages ==
    [author : {"u", "@u"}, message : {"A", ""}, source : {"twitch"},
     emotes : {NilSlice, Slice(<<>>), Slice(<<"e">>)},
     badges : {NilSlice, Slice(<<"mod">>)},
     colour : {"", "#ff0000"}, pref : {"", "#00ff00"},
     url : {"twitch.tv", "youtube.com"}, showBadges : BOOLEAN]

\* lines of a source whose URL names neither platform, with or without a
\* source label of their own, with or without text and emotes
LabelledLines ==
    [author : {"u", "@u"}, message : {"A", "", " "}, source : {"", "kick"},
     emotes : {Slice(<<>>), Slice(<<"e">>)}, badges : {NilSlice},
     colour : {""}, pref : {"", "#00ff00"},
     url : {"twitch.tv", "kick.com"}, showBadges : BOOLEAN]

\* tokenizer.Iter collected into a slice made by make
Tokenize(text) == Slice(IF text = "" THEN <<>> ELSE <<text>>)

\* fnv.New32a over the lowercased name, for the names of HarvestedMessages:
\* the low 16 bits of Sum32 (4027333648 for "u", 1540860446 for "@u"), which
\* carry the remainder by the palette length
Sum32(name) == CASE name = "u" -> 15376
                 [] name = "@u" -> 43550
                 [] OTHER -> 10540

fallbackColourPalette ==
    <<"#f97316", "#22d3ee", "#c084fc", "#34d399", "#facc15", "#38bdf8",
      "#f472b6", "#a3e635">>

colorFromName(name) ==
    IF name = "" THEN "#94a3b8"
    ELSE fallbackColourPalette[(Sum32(name) % Len(fallbackColourPalette)) + 1]

\* a slice that is not nil with the items of sl: what "if x == nil { x =
\* []T{} }" leaves in x, and what make([]any, len(x)) filled from x is
NonNilKept(sl) == sl
NonNil(sl) == Slice(sl.items)

\* the slice part of Message.normalize: nil slices become empty ones, and
\* badges are emptied when the UI configuration hides them
normalizeSlices(m, showBadges) ==
    [m EXCEPT !.fragments = NonNil(@),
              !.emotes = NonNil(@),
              !.badges = IF showBadges THEN NonNil(@) ELSE Slice(<<>>)]

\* Message.toChatPayload: normalize, then every slice copied into a slice
\* made by make, which is never nil
toChatPayload(m, showBadges) ==
    LET n == normalizeSlices(normalize(m), showBadges)
    IN [author |-> n.author, message |-> n.message,
        fragments |-> NonNil(n.fragments), emotes |-> NonNil(n.emotes),
        badges |-> NonNil(n.badges), source |-> n.source,
        colour |-> n.colour]

\* the body of the loop of processChatOutput up to msg.normalize()
LiveMessage(h) ==
    LET src == IF h.url = "twitch.tv" THEN "Twitch"
               ELSE IF h.url = "youtube.com" THEN "YouTube" ELSE h.source
        m == [author |-> h.author, message |-> h.message,
              fragments |-> Tokenize(h.message), emotes |-> NonNil(h.emotes),
              badges |-> NonNil(h.badges), source |-> normalizeSource(src),
              colour |-> IF h.pref # "" THEN h.pref ELSE h.colour]
    IN normalizeSlices(normalize(m), h.showBadges)

\* the row processChatOutput hands to InsertMessage
StoredMessage(m, payload) ==
    [username |-> m.author, platform |-> m.source, text |-> m.message,
     emotesJSON |-> m.emotes, badgesJSON |-> m.badges, rawJSON |-> <<payload>>]

\* enrichTailerMessage with the colour and the slices: the raw payload, blanks
\* filled from the columns, tokens made again, an empty colour filled from
\* userColorMap or from colorFromName
enrichTailerFallback(author, pref) ==
    IF pref # "" THEN pref ELSE colorFromName(author)

enrichTailerPayload(row, pref, showBadges) ==
    LET blank == [author |-> "", message |-> "", fragments |-> NilSlice,
                  emotes |-> NilSlice, badges |-> NilSlice, source |-> "",
                  colour |-> ""]
        raw == IF row.rawJSON = <<>> THEN blank ELSE row.rawJSON[1]
        a == IF raw.author = "" THEN row.username ELSE raw.author
        t == IF raw.message = "" THEN row.text ELSE raw.message
        s == IF raw.source = "" THEN row.platform ELSE raw.source
        e == NonNil(IF raw.emotes.nil THEN row.emotesJSON ELSE raw.emotes)
        b == NonNil(IF raw.badges.nil
                      THEN (IF row.badgesJSON.items = <<>> THEN NilSlice
                            ELSE row.badgesJSON)
                      ELSE raw.badges)
        m == [author |-> a, message |-> t, fragments |-> Tokenize(t),
              emotes |-> e, badges |-> b, source |-> normalizeSource(s),
              colour |-> IF raw.colour = "" THEN enrichTailerFallback(a, pref)
                         ELSE raw.colour]
    IN normalizeSlices(normalize(m), showBadges)

\* a nil *time.Time
NoTS == -1

\* no call made yet, the paging client not started
OpsInit ==
    /\ lastOp = [op |-> "none", arg |-> "", since |-> NoTS, before |-> NoTS,
                 prior |-> {}, err |-> FALSE, n |-> 0, rows |-> <<>>,
                 status |-> 0, queried |-> FALSE]
    /\ pagePc = "idle"
    /\ pageBefore = NoTS
    /\ visited = <<>>

ApiInit ==
    /\ hmsg \in HarvestedMessages
    /\ prow = <<>>
    /\ liveOut = <<>>
    /\ tailerOut = <<>>
    /\ lastOut = <<>>
    /\ OpsInit
    /\ TokFixed
    /\ ConnFixed

LabelInit ==
    /\ hmsg \in LabelledLines
    /\ prow = <<>>
    /\ liveOut = <<>>
    /\ tailerOut = <<>>
    /\ lastOut = <<>>
    /\ OpsInit
    /\ TokFixed
    /\ ConnFixed

ApiFixed ==
    /\ hmsg = [author |-> "u", message |-> "A", source |-> "",
               emotes |-> NilSlice, badges |-> NilSlice, colour |-> "",
               pref |-> "", url |-> "twitch.tv", showBadges |-> TRUE]
    /\ prow = <<>>
    /\ liveOut = <<>>
    /\ tailerOut = <<>>
    /\ lastOut = <<>>
    /\ OpsInit
    /\ TokFixed
    /\ ConnFixed

ApiFrame ==
    UNCHANGED <<hubVars, storeVars, tailVars, envVars, tailerVars, streamVars,
                gnastyVars, migVars, offsetVars, lastOp, pagePc, pageBefore,
                visited, tokVars, connVars>>

\* processChatOutput reads the line: drop, or store the row and broadcast
LiveIngest ==
    /\ prow = <<>> /\ liveOut = <<>>
    /\ LET m == LiveMessage(hmsg)
           payload == toChatPayload(m, hmsg.showBadges)
       IN /\ ~ShouldDrop(m)
          /\ prow' = <<StoredMessage(m, payload)>>
          /\ liveOut' = <<payload>>
          /\ lastOut' = <<[path |-> "live", payload |-> payload]>>
    /\ UNCHANGED <<hmsg, tailerOut>>
    /\ ApiFrame

\* the tailer hands the stored row to BroadcastFromTailer
TailerBroadcast ==
    /\ prow # <<>> /\ tailerOut = <<>>
    /\ LET m == enrichTailerPayload(prow[1], hmsg.pref, hmsg.showBadges)
       IN /\ ~ShouldDrop(m)
          /\ tailerOut' = <<toChatPayload(m, hmsg.showBadges)>>
          /\ lastOut' = <<[path |-> "tailer",
                           payload |-> toChatPayload(m, hmsg.showBadges)]>>
    /\ UNCHANGED <<hmsg, prow, liveOut>>
    /\ ApiFrame

\* payloads as another writer leaves them in raw_json, and as they reach
\* sanitizeMessagePayload: any list may be null or missing
RawPayloads ==
    [author : {"u"}, message : {"A"}, fragments : {NilSlice, Slice(<<"A">>)},
     emotes : {NilSlice, Slice(<<>>)}, badges : {NilSlice, Slice(<<"mod">>)},
     source : {"Twitch"}, colour : {""}]

\* rows another writer stored: raw_json empty, with every list null, or with
\* every list an array
RawNulls == [author |-> "u", message |-> "A", fragments |-> NilSlice,
             emotes |-> NilSlice, badges |-> NilSlice, source |-> "Twitch",
             colour |-> ""]
RawArrays == [RawNulls EXCEPT !.fragments = Slice(<<"A">>),
                              !.emotes = Slice(<<>>),
                              !.badges = Slice(<<"mod">>)]
ForeignRows ==
    [username : {"u"}, platform : {"Twitch", ""}, text : {"A"},
     emotesJSON : {NilSlice, Slice(<<"e">>)},
     badgesJSON : {NilSlice, Slice(<<"mod">>)},
     rawJSON : {<<>>, <<RawNulls>>, <<RawArrays>>}]

\* the fallback of messagePayloadFromStorage for a row without raw_json,
\* with the badges column and the colour preference
storageFallbackPayload(row, pref, showBadges) ==
    LET b == IF row.badgesJSON.items = <<>> THEN NilSlice ELSE row.badgesJSON
        fallback == [author |-> row.username, message |-> row.text,
                     fragments |-> Slice(<<>>), emotes |-> Slice(<<>>),
                     badges |-> NonNil(b), source |-> row.platform,
                     colour |-> pref]
    IN toChatPayload(normalizeSlices(normalize(fallback), showBadges), showBadges)

\* sanitizeMessagePayload: unmarshal, normalize, marshal toChatPayload
sanitizeSlices(payload, showBadges) ==
    toChatPayload(normalizeSlices(normalize(payload), showBadges), showBadges)

\* the tailer hands a row of another writer to BroadcastFromTailer
TailerForeign ==
    /\ \E row \in ForeignRows :
         LET m == enrichTailerPayload(row, hmsg.pref, hmsg.showBadges)
         IN /\ ~ShouldDrop(m)
            /\ lastOut' = <<[path |-> "tailer",
                             payload |-> toChatPayload(m, hmsg.showBadges)]>>
    /\ UNCHANGED <<hmsg, prow, liveOut, tailerOut>>
    /\ ApiFrame

\* the history loop of StreamChat builds the payload of a row without raw_json
HistoryFallback ==
    /\ \E row \in ForeignRows :
         /\ row.rawJSON = <<>>
         /\ lastOut' = <<[path |-> "history",
                          payload |-> storageFallbackPayload(row, hmsg.pref,
                                                             hmsg.showBadges)]>>
    /\ UNCHANGED <<hmsg, prow, liveOut, tailerOut>>
    /\ ApiFrame

\* StreamChat sanitizes a payload before it writes it to the connection
SanitizeWrite ==
    /\ \E p \in RawPayloads \cup {o.payload : o \in SeqSet(lastOut)} :
         LET out == sanitizeSlices(p, hmsg.showBadges)
         IN /\ ~ShouldDrop(out)
            /\ lastOut' = <<[path |-> "sanitize", payload |-> out]>>
    /\ UNCHANGED <<hmsg, prow, liveOut, tailerOut>>
    /\ ApiFrame

\* ------------------------------------------------------------------------
\* Store operations and GET /api/messages (sqlite.go, routes/messages.go)
\* ------------------------------------------------------------------------
\* Store.PurgeBefore: DELETE FROM messages WHERE ts < ?, and RowsAffected
PurgeBeforeInclusive(handle, msgs, cutoff) ==
    IF handle # "open" THEN [msgs |-> msgs, n |-> 0, err |-> TRUE]
    ELSE [msgs |-> {r \in msgs : ~(r.ts <= cutoff)},
          n |-> Cardinality({r \in msgs : r.ts <= cutoff}), err |-> FALSE]
PurgeBefore(handle, msgs, cutoff) ==
    IF handle # "open" THEN [msgs |-> msgs, n |-> 0, err |-> TRUE]
    ELSE [msgs |-> {r \in msgs : ~(r.ts < cutoff)},
          n |-> Cardinality({r \in msgs : r.ts < cutoff}), err |-> FALSE]

\* Store.PurgeAll: DELETE FROM messages, then VACUUM
PurgeAll(handle, msgs) ==
    IF handle # "open" THEN [msgs |-> msgs, err |-> TRUE]
    ELSE [msgs |-> {}, err |-> FALSE]

\* Store.GetRecent with QueryOpts{Limit, SinceTS, BeforeTS}: both cursors set
\* is an error; else ts >= since, ts < before, newest first, LIMIT if > 0
GetRecentPickBefore(handle, msgs, limit, since, before) ==
    IF handle # "open" THEN [rows |-> <<>>, err |-> TRUE]
    ELSE [rows |-> GetRecent({r \in msgs : before = NoTS \/ r.ts < before}, limit),
          err |-> FALSE]
GetRecentOpts(handle, msgs, limit, since, before) ==
    IF handle # "open" THEN [rows |-> <<>>, err |-> TRUE]
    ELSE IF since # NoTS /\ before # NoTS THEN [rows |-> <<>>, err |-> TRUE]
    ELSE [rows |-> GetRecent({r \in msgs : /\ (since = NoTS \/ r.ts >= since)
                                          /\ (before = NoTS \/ r.ts < before)},
                             limit),
          err |-> FALSE]

\* handleGetRecentMessages after the parameters parsed: 400 when both cursors
\* are given, else one more row than the page is fetched and, if it came,
\* next_before_ts is the timestamp of the last item of the page minus one
handleGetRecentMessages(handle, msgs, limit, since, before) ==
    IF since # NoTS /\ before # NoTS
      THEN [status |-> 400, queried |-> FALSE, items |-> <<>>, next |-> NoTS]
      ELSE LET r == GetRecentOpts(handle, msgs, limit + 1, since, before)
           IN IF r.err
                THEN [status |-> 500, queried |-> TRUE, items |-> <<>>,
                      next |-> NoTS]
                ELSE IF Len(r.rows) > limit
                  THEN [status |-> 200, queried |-> TRUE,
                        items |-> SubSeq(r.rows, 1, limit),
                        next |-> r.rows[limit].ts - 1]
                  ELSE [status |-> 200, queried |-> TRUE, items |-> r.rows,
                        next |-> NoTS]

\* the record of a call: since and before are NoTS where the call has none
OpRecord(op, arg, since, before, err, n, rows, status, queried) ==
    [op |-> op, arg |-> arg, since |-> since, before |-> before,
     prior |-> messages, err |-> err, n |-> n, rows |-> rows,
     status |-> status, queried |-> queried]

OpsFrame ==
    /\ UNCHANGED <<hmsg, prow, liveOut, tailerOut, lastOut, tokVars, connVars>>
    /\ UNCHANGED <<hubVars, tailVars, envVars, tailerVars, streamVars,
                   gnastyVars, migVars, offsetVars>>

\* the IDs the callers of this section insert under
OpIds == {"9", "a"}

\* a caller inserts a row under any ID, new or taken
OpInsert ==
    /\ pagePc = "idle"
    /\ \E id \in OpIds, ts \in 1..MaxTS :
         LET m == NewMessage(id, ts, "A")
         IN /\ messages' = InsertMessage(db, messages, m)
            /\ lastOp' = OpRecord("InsertMessage", id, NoTS, NoTS,
                                  ~InsertOk(db, messages, m), 0, <<>>, 0, FALSE)
    /\ UNCHANGED <<db, pagePc, pageBefore, visited>>
    /\ OpsFrame

\* GetRecent with any combination of the two cursors
OpGetRecent ==
    /\ \E limit \in 0..MaxLimit, since \in {NoTS} \cup (1..MaxTS),
          before \in {NoTS} \cup (1..MaxTS) :
         LET r == GetRecentOpts(db, messages, limit, since, before)
         IN lastOp' = OpRecord("GetRecent", "", since, before, r.err, 0,
                               r.rows, 0, FALSE)
    /\ UNCHANGED <<storeVars, pagePc, pageBefore, visited>>
    /\ OpsFrame

OpTailHead ==
    /\ lastOp' = OpRecord("TailHead", "", NoTS, NoTS, db # "open",
                          TailHead(messages).rowid, <<>>, 0, FALSE)
    /\ UNCHANGED <<storeVars, pagePc, pageBefore, visited>>
    /\ OpsFrame

OpTailNext ==
    /\ \E limit \in 0..MaxLimit :
         lastOp' = OpRecord("TailNext", "", NoTS, NoTS, db # "open", 0,
                            IF db = "open"
                              THEN TailNextRows(messages, ZeroPos, limit)
                              ELSE <<>>,
                            0, FALSE)
    /\ UNCHANGED <<storeVars, pagePc, pageBefore, visited>>
    /\ OpsFrame

\* Close of a store on a persistent path
OpClose ==
    /\ db = "open"
    /\ db' = "nil"
    /\ messages' = IF CloseKeepsFile("persistent") THEN messages ELSE {}
    /\ lastOp' = OpRecord("Close", "", NoTS, NoTS, FALSE, 0, <<>>, 0, FALSE)
    /\ UNCHANGED <<pagePc, pageBefore, visited>>
    /\ OpsFrame

\* Init of a new store on the same path: every migration is recorded already
OpInit ==
    /\ db = "nil"
    /\ db' = "open"
    /\ UNCHANGED messages
    /\ lastOp' = OpRecord("Init", "", NoTS, NoTS, FALSE, 0, <<>>, 0, FALSE)
    /\ UNCHANGED <<pagePc, pageBefore, visited>>
    /\ OpsFrame

\* a purge; the paging client walks a store that no purge changes under it
OpPurgeBefore ==
    /\ pagePc = "idle"
    /\ \E cutoff \in 1..(MaxTS + 1) :
         LET r == PurgeBefore(db, messages, cutoff)
         IN /\ messages' = r.msgs
            /\ lastOp' = OpRecord("PurgeBefore", "", NoTS, cutoff, r.err, r.n,
                                  <<>>, 0, FALSE)
    /\ UNCHANGED <<db, pagePc, pageBefore, visited>>
    /\ OpsFrame

OpPurgeAll ==
    /\ LET r == PurgeAll(db, messages)
       IN /\ messages' = r.msgs
          /\ lastOp' = OpRecord("PurgeAll", "", NoTS, NoTS, r.err, 0, <<>>, 0,
                                FALSE)
    /\ UNCHANGED <<db, pagePc, pageBefore, visited>>
    /\ OpsFrame

\* GET /api/messages with any combination of since_ts and before_ts
HttpGetMessages ==
    /\ \E limit \in 1..MaxLimit, since \in {NoTS} \cup (1..MaxTS),
          before \in {NoTS} \cup (1..MaxTS) :
         LET r == handleGetRecentMessages(db, messages, limit, since, before)
         IN lastOp' = OpRecord("GET /api/messages", "", since, before,
                               r.status # 200, 0, r.items, r.status, r.queried)
    /\ UNCHANGED <<storeVars, pagePc, pageBefore, visited>>
    /\ OpsFrame

\* the ids of the items of a response, in order
ItemIds(items) == [i \in 1..Len(items) |-> items[i].id]

\* the client's first request: GET /api/messages?limit=L
PageStart ==
    /\ pagePc = "idle"
    /\ \E limit \in 1..MaxLimit :
         LET r == handleGetRecentMessages(db, messages, limit, NoTS, NoTS)
         IN /\ visited' = ItemIds(r.items)
            /\ pageBefore' = r.next
            /\ pagePc' = IF r.next = NoTS THEN "done" ELSE "paging"
            /\ lastOp' = OpRecord("GET /api/messages", "", NoTS, NoTS,
                                  r.status # 200, limit, r.items, r.status,
                                  r.queried)
    /\ UNCHANGED storeVars
    /\ OpsFrame

\* the next request passes the response's next_before_ts as before_ts
PageNext ==
    /\ pagePc = "paging"
    /\ LET r == handleGetRecentMessages(db, messages, lastOp.n, NoTS, pageBefore)
       IN /\ visited' = visited \o ItemIds(r.items)
          /\ pageBefore' = r.next
          /\ pagePc' = IF r.next = NoTS THEN "done" ELSE "paging"
          /\ lastOp' = OpRecord("GET /api/messages", "", NoTS, pageBefore,
                                r.status # 200, lastOp.n, r.items, r.status,
                                r.queried)
    /\ UNCHANGED storeVars
    /\ OpsFrame

\* ------------------------------------------------------------------------
\* The life cycle of one Store: Init, Close and the operations around them
\* (sqlite.go)
\* ------------------------------------------------------------------------
\* Store.Init: the body runs under s.initOnce, once per Store; it sets
\* s.initErr on a failure and s.db on success, and every call returns
\* s.initErr
StoreInitRetry(st, file, mode, failAt) ==
    IF st.db = "open" THEN [st |-> st, file |-> file]
    ELSE LET r == applyMigrationsIdempotent([file EXCEPT !.exists = TRUE], failAt)
         IN [st |-> [mode |-> mode, inited |-> TRUE,
                     db |-> IF r.err = "none" THEN "open" ELSE "nil",
                     err |-> r.err],
             file |-> r.file]
StoreInitOnce(st, file, mode, failAt) ==
    IF st.inited THEN [st |-> st, file |-> file]
    ELSE LET r == applyMigrationsIdempotent([file EXCEPT !.exists = TRUE], failAt)
         IN [st |-> [mode |-> mode, inited |-> TRUE,
                     db |-> IF r.err = "none" THEN "open" ELSE "nil",
                     err |-> r.err],
             file |-> r.file]

LifeFrame ==
    /\ UNCHANGED <<rowsAtClose, pagePc, pageBefore, visited>>
    /\ UNCHANGED <<hmsg, prow, liveOut, tailerOut, lastOut, tokVars, connVars>>
    /\ UNCHANGED <<hubVars, tailVars, envVars, tailerVars, streamVars,
                   gnastyVars, offsetVars>>

\* a caller calls Init on the store, for the first time or again
LifeInit ==
    /\ \E mode \in Modes, failAt \in 0..Len(MigrationFiles) :
         LET r == StoreInitOnce(stores[1], dbFile, mode, failAt)
         IN /\ stores' = [stores EXCEPT ![1] = r.st]
            /\ dbFile' = r.file
            /\ db' = r.st.db
            /\ lastOp' = OpRecord("Init", "", NoTS, NoTS, r.st.err # "none", 0,
                                  <<>>, 0, FALSE)
    /\ UNCHANGED messages
    /\ LifeFrame

\* a caller calls Close on the store: the handle is closed and dropped, and
\* the file of an ephemeral store is removed
LifeClose ==
    /\ stores' = [stores EXCEPT ![1].db = "nil"]
    /\ db' = "nil"
    /\ IF stores[1].inited /\ ~CloseKeepsFile(stores[1].mode)
         THEN /\ dbFile' = NoFile
              /\ messages' = {}
         ELSE UNCHANGED <<dbFile, messages>>
    /\ lastOp' = OpRecord("Close", "", NoTS, NoTS, FALSE, 0, <<>>, 0, FALSE)
    /\ LifeFrame

RestFixed == GnastyFixed /\ MigFixed /\ OffsetFixed /\ ApiFixed

InitStream == HubInit /\ StoreInit /\ TailInit /\ EnvFixed /\ TailerFixed /\ StreamInit
    /\ RestFixed
NextStream ==
    \/ Tick
    \/ IngestLine
    \/ IngestBroadcast
    \/ ConnSubscribe
    \/ ConnHistory
    \/ ConnLive
    \/ ConnClose
SpecStream == InitStream /\ [][NextStream]_vars

\* one connection from the upgrade to the end of its writer goroutine: the
\* handler's steps run, the connection ends at some time (the client closes
\* or the read deadline passes) and the writer goroutine is scheduled
InitConn == HubInit /\ StoreInit /\ TailInit /\ EnvFixed /\ TailerFixed /\ StreamInit
    /\ RestFixed
NextConn ==
    \/ IngestAnyLine
    \/ IngestBroadcast
    \/ ConnSubscribe
    \/ ConnHistory
    \/ HistoryWriteError
    \/ WriterForward
    \/ WriterWriteError
    \/ ReadError
    \/ WriterReturn
FairConn ==
    /\ WF_vars(ConnHistory \/ HistoryWriteError)
    /\ WF_vars(ReadError)
    /\ WF_vars(WriterReturn)
SpecConn == InitConn /\ [][NextConn]_vars /\ FairConn

\* live ingest while the store may fail
InitIngest == InitStream
NextIngest ==
    \/ Tick
    \/ IngestLine
    \/ IngestBroadcast
    \/ StoreOutage
    \/ ConnSubscribe
    \/ ConnHistory
    \/ ConnLive
    \/ ConnClose
SpecIngest == InitIngest /\ [][NextIngest]_vars

InitDrop == HubInit /\ StoreInit /\ TailInit /\ EnvInit /\ TailerFixed /\ StreamInit
    /\ RestFixed
NextDrop ==
    \/ IngestAnyLine
    \/ IngestBroadcast
    \/ ExternalEmptyRow
    \/ TailerBroadcastRow
    \/ ConnSubscribe
    \/ ConnHistory
    \/ ConnLive
    \/ ConnClose
SpecDrop == InitDrop /\ [][NextDrop]_vars

InitTailer == HubInit /\ StoreInit /\ TailInit /\ EnvFixed /\ TailerInit /\ StreamInit
    /\ RestFixed
NextTailer ==
    \/ ExternalInsert
    \/ StoreOutage
    \/ TailerStart
    \/ TickFetch
    \/ TickBroadcast
    \/ Crash
    \/ TailerSubscribe
SpecTailer == InitTailer /\ [][NextTailer]_vars

\* one tailer run: Start, then ticks, against a store that may fail and that
\* other processes write to
NextRun ==
    \/ ExternalInsert
    \/ ExternalReplace
    \/ StoreOutage
    \/ TailerStart
    \/ TickFetch
    \/ TickBroadcast
\* an offset file left behind by an earlier run
OldOffsets == {ZeroPos, [ts |-> 1, rowid |-> 1]}
InitRun ==
    /\ HubInit /\ StoreInit /\ TailInit /\ EnvFixed /\ StreamInit /\ RestFixed
    /\ cfgPersist \in BOOLEAN
    /\ offsetFile \in (IF cfgPersist THEN OldOffsets ELSE {ZeroPos})
    /\ tpc = "idle" /\ last = ZeroPos /\ persisted = ZeroPos /\ seen = {}
    /\ toBroadcast = <<>> /\ handed = <<>> /\ fetched = {}
    /\ lastTick = "none" /\ outageRows = {} /\ crashes = 0
    /\ atStart = {} /\ seenEpoch = 0 /\ tickEpoch = 0
    /\ handedEpoch = <<>> /\ replaced = 0
SpecRun == InitRun /\ [][NextRun]_vars

\* the tailer with a ticker that keeps firing, a broadcast loop that keeps
\* running and a store whose outages end
FairTailer ==
    /\ WF_vars(StoreOutage /\ storeUp')
    /\ SF_vars(TickFetch /\ storeUp)
    /\ WF_vars(TickBroadcast)
SpecTailerLive == InitTailer /\ [][NextTailer]_vars /\ FairTailer

\* one tailer run without persistence, outage or crash: rows arrive, ticks
\* fetch and deliver them
InitSeen == InitTailer /\ cfgPersist = FALSE
NextSeen == ExternalInsert \/ TailerStart \/ TickFetch \/ TickBroadcast
SpecSeen == InitSeen /\ [][NextSeen]_vars

InitTail == HubInit /\ StoreInit /\ TailInit /\ EnvFixed /\ TailerFixed /\ StreamInit
    /\ RestFixed
NextTail == WriterInsert \/ ReaderTailNext
SpecTail == InitTail /\ [][NextTail]_vars

InitHub == HubInit /\ StoreInit /\ TailInit /\ EnvFixed /\ TailerFixed /\ StreamInit
    /\ RestFixed
NextHub == Subscribe \/ Unsubscribe \/ PublishBegin \/ PublishStep \/ Consume
SpecHub == InitHub /\ [][NextHub]_vars

InitBackoff ==
    /\ HubInit /\ StoreInit /\ TailInit /\ EnvFixed /\ TailerFixed /\ StreamInit
    /\ GnastyInit /\ MigFixed /\ OffsetFixed /\ ApiFixed
NextBackoff == RunStart \/ RunExit \/ RunSleep \/ RunSleepCancelled \/ CancelContext
SpecBackoff == InitBackoff /\ [][NextBackoff]_vars

\* two drivers, every configured source running its own loop
InitSources ==
    /\ HubInit /\ StoreInit /\ TailInit /\ EnvFixed /\ TailerFixed /\ StreamInit
    /\ gcfg = NewGnasty(0, 0)
    /\ hasInsert = FALSE
    /\ \E drv \in Drivers : SupervisorInit(Sources, drv)
    /\ MigFixed /\ OffsetFixed /\ ApiFixed
NextSources ==
    \/ RunStart \/ RunExit \/ RunSleep \/ RunSleepCancelled
    \/ CancelContext \/ GnastyWait
    \/ FetchStart \/ FetchExit \/ FetchSleep
SpecSources == InitSources /\ [][NextSources]_vars

\* each run goroutine is scheduled; exec.CommandContext kills the subprocess
\* when ctx is done, so a cancelled source leaves its read loop; the timer
\* or ctx.Done() ends sleepWithContext; a caller blocked in Wait is woken
FairGnasty ==
    /\ \A s \in Sources :
          /\ WF_vars(RunStartOf(s))
          /\ WF_vars(RunExitOf(s) /\ cancelled)
          /\ WF_vars(RunSleepOf(s) \/ RunSleepCancelledOf(s))
    /\ WF_vars(GnastyWait)
SpecSourcesLive == InitSources /\ [][NextSources]_vars /\ FairGnasty

\* one gnasty source whose stdout lines are read one at a time
InitLines ==
    /\ HubInit /\ StoreInit /\ TailInit /\ EnvFixed /\ TailerFixed /\ StreamInit
    /\ gcfg = NewGnasty(0, 0)
    /\ hasInsert \in BOOLEAN
    /\ SupervisorInit({1}, "gnasty")
    /\ MigFixed /\ OffsetFixed /\ ApiFixed
NextLines ==
    \/ RunStart \/ RunReadLine \/ RunExit \/ RunSleep \/ RunSleepCancelled
    \/ CancelContext
SpecLines == InitLines /\ [][NextLines]_vars

\* the whole process from startup to its exit on a signal: one source under
\* either driver, the tailer, viewers and publishers
InitShutdown ==
    /\ HubInit /\ StoreInit /\ TailInit /\ EnvFixed /\ TailerFixed /\ StreamInit
    /\ gcfg = NewGnasty(0, 0)
    /\ hasInsert = FALSE
    /\ \E drv \in Drivers : SupervisorInit({1}, drv)
    /\ MigFixed /\ OffsetFixed /\ ApiFixed
NextShutdown ==
    \/ RunStart \/ RunExit \/ RunSleep
    \/ FetchStart \/ FetchExit \/ FetchSleep
    \/ MainTailerStart \/ ViewerConnect \/ LivePublishBegin \/ LivePublishStep
    \/ MainSignal \/ MainExit
SpecShutdown == InitShutdown /\ [][NextShutdown]_vars

\* the shared structures of routes/chat.go: the subscriber registry, used
\* under subscribersMu, and the emote cache, written by every
\* processChatOutput goroutine
InitPayload == HubInit /\ StoreInit /\ TailInit /\ EnvInit /\ TailerFixed /\ StreamInit
    /\ GnastyFixed /\ MigFixed /\ OffsetFixed /\ ApiInit
NextPayload ==
    \/ LiveIngest
    \/ TailerBroadcast
    \/ TailerForeign
    \/ HistoryFallback
    \/ SanitizeWrite
SpecPayload == InitPayload /\ [][NextPayload]_vars

\* the drop test on lines of any source label
InitLabels == HubInit /\ StoreInit /\ TailInit /\ EnvInit /\ TailerFixed /\ StreamInit
    /\ GnastyFixed /\ MigFixed /\ OffsetFixed /\ LabelInit
NextLabels ==
    \/ LiveIngest
    \/ TailerBroadcast
SpecLabels == InitLabels /\ [][NextLabels]_vars

InitOps == HubInit /\ StoreInit /\ TailInit /\ EnvFixed /\ TailerFixed /\ StreamInit
    /\ GnastyFixed /\ MigFixed /\ OffsetFixed /\ ApiFixed
NextOps ==
    \/ OpInsert
    \/ OpGetRecent
    \/ OpTailHead
    \/ OpTailNext
    \/ OpClose
    \/ OpInit
    \/ OpPurgeBefore
    \/ OpPurgeAll
    \/ HttpGetMessages
SpecOps == InitOps /\ [][NextOps]_vars

\* one Store from New on: Init and Close at any time, any number of times,
\* and the operations on messages in between
InitLife == HubInit /\ TailInit /\ EnvFixed /\ TailerFixed /\ StreamInit
    /\ GnastyFixed /\ MigInit /\ OffsetFixed /\ ApiFixed
    /\ db = "nil" /\ messages = {}
NextLife ==
    \/ LifeInit
    \/ LifeClose
    \/ OpInsert
    \/ OpGetRecent
    \/ OpTailHead
    \/ OpTailNext
    \/ OpPurgeBefore
    \/ OpPurgeAll
SpecLife == InitLife /\ [][NextLife]_vars

InitPaging == InitOps
NextPaging == OpInsert \/ OpPurgeBefore \/ PageStart \/ PageNext
SpecPaging == InitPaging /\ [][NextPaging]_vars

InitTokens == HubInit /\ StoreInit /\ TailInit /\ EnvFixed /\ TailerFixed /\ StreamInit
    /\ GnastyFixed /\ MigFixed /\ OffsetFixed
    /\ hmsg = [author |-> "u", message |-> "A", source |-> "",
               emotes |-> NilSlice, badges |-> NilSlice, colour |-> "",
               pref |-> "", url |-> "twitch.tv", showBadges |-> TRUE]
    /\ prow = <<>> /\ liveOut = <<>> /\ tailerOut = <<>> /\ lastOut = <<>>
    /\ OpsInit /\ TokInit /\ ConnFixed
NextTokens == TokScan \/ TokEmit
SpecTokens == InitTokens /\ [][NextTokens]_vars

InitShared == InitSources
NextShared ==
    \/ Subscribe \/ Unsubscribe \/ PublishBegin \/ PublishStep
    \/ EmoteCacheWriteBegin \/ EmoteCacheWriteEnd
SpecShared == InitShared /\ [][NextShared]_vars

InitMigrate ==
    /\ HubInit /\ StoreInit /\ TailInit /\ EnvFixed /\ TailerFixed /\ StreamInit
    /\ GnastyFixed /\ MigInit /\ OffsetFixed /\ ApiFixed
NextMigrate == StoreOpen \/ StoreInsert \/ StoreClose
SpecMigrate == InitMigrate /\ [][NextMigrate]_vars

InitOffset ==
    /\ HubInit /\ StoreInit /\ TailInit /\ EnvFixed /\ StreamInit
    /\ GnastyFixed /\ MigFixed /\ OffsetInit /\ ApiFixed
    /\ cfgPersist = TRUE
    /\ tpc = "polling" /\ last = ZeroPos /\ persisted = ZeroPos
    /\ offsetFile = NoContent /\ seen = {}
    /\ toBroadcast = <<>> /\ handed = <<>> /\ fetched = {}
    /\ lastTick = "none" /\ outageRows = {} /\ crashes = 0
    /\ atStart = {} /\ seenEpoch = 0 /\ tickEpoch = 0
    /\ handedEpoch = <<>> /\ replaced = 0
NextOffset ==
    \/ OffsetAdvance
    \/ PersistBegin
    \/ WriteTmp
    \/ RenameTmp
    \/ OffsetCrash
    \/ OffsetRead
SpecOffset == InitOffset /\ [][NextOffset]_vars

\* a position is at or before another one
PosLeq(r, pos) == ~TailAfter(r, pos)

\* C3: every row TailNext returned that lies at or before the tailer's
\* cursor, in memory or in the offset file, has been handed to the hub.
C3_PositionMeansDelivered ==
    \A r \in fetched :
        /\ (tpc # "idle" /\ PosLeq(r, last)) => InSeq(r, handed)
        /\ (offsetFile # ZeroPos /\ PosLeq(r, offsetFile)) => InSeq(r, handed)

\* C2: a row that the paging reader has not been given yet is still ahead
\* of its cursor, so no inserted row is skipped; no row is returned twice
\* and rows are returned in ascending (ts, rowid) order.
C2_NoSkipNoDup ==
    /\ \A r \in messages : InSeq(r, returned) \/ TailAfter(r, cursor)
    /\ \A i, j \in 1..Len(returned) : i < j => TailLess(returned[i], returned[j])

\* C8: a failing TailNext leaves cursor, seen-ID set and subscribers alone
\* and the loop keeps polling, and every row (with an ID) inserted during
\* the outage is delivered after recovery: it has been handed to the hub, is
\* in the batch being broadcast, or is still ahead of the cursor.
C8_OutageRowsDelivered ==
    (crashes = 0 /\ tpc \in {"polling", "broadcast"}) =>
        \A r \in outageRows :
            r.id # "" =>
                InSeq(r, handed) \/ InSeq(r, toBroadcast) \/ TailAfter(r, last)

\* the connection has replayed history, runs its writer and is registered
ConnIsLive == AtStep("live") /\ 1 \in subscribers

FrameTexts(kind) == {frames[i].text : i \in {k \in 1..Len(frames) : frames[k].kind = kind}}
BufferedTexts == {chanBuf[1][i].message : i \in 1..Len(chanBuf[1])}

\* a text has reached the consumer or waits in its queue
DeliveredOrPending(t) == t \in FrameTexts("hist") \cup FrameTexts("live") \cup BufferedTexts

C9_EmptyNeverStoredOrDelivered ==
    /\ \A r \in messages : r.raw.present => r.text # ""
    /\ \A i \in 1..Len(frames) : ~(frames[i].text = "" /\ frames[i].emotes = 0)
    /\ \A ch \in Chans : \A i \in 1..Len(Enqueued(ch)) :
          ~(TrimSpace(Enqueued(ch)[i].message) = "" /\ Enqueued(ch)[i].emotes = 0)

\* C9 amended: while drop-empty is enabled (ELORA_WS_DROP_EMPTY unset or
\* truthy), an empty message is never inserted by the ingest path and never
\* reaches a subscriber.
C9_DropEmptyWhenEnabled == dropEmpty => C9_EmptyNeverStoredOrDelivered

\* with drop-empty enabled the harvester emitted an empty line, and an
\* empty row written by another process went through the tailer path and
\* was in the store at the history read
C9_Witness ==
    /\ dropEmpty
    /\ emptyLines > 0
    /\ ConnIsLive
    /\ \E r \in histSeen : r.text = "" /\ r.rowid \in tailerSent

C1_Backpressure ==
    /\ \A p \in Pubs : (pub[p].pc = "send" /\ panicked = "none") => ENABLED PublishStep
    /\ \A d \in dropped : d.len = QueueCap /\ ~InSeq(d.msg, Enqueued(d.ch))
    /\ \A m \in DOMAIN snap : \A ch \in snap[m] :
          \/ InSeq(m, Enqueued(ch))
          \/ \E d \in dropped : d.ch = ch /\ d.msg = m

\* a finished Publish dropped its payload for one full queue and delivered
\* it to another
C1_Witness ==
    \E m \in DOMAIN snap : \E c1, c2 \in snap[m] :
        /\ c1 # c2
        /\ \E d \in dropped : d.ch = c1 /\ d.msg = m
        /\ InSeq(m, Enqueued(c2))

\* C7: no queue is closed twice, and a queue that has been made is
\* registered exactly while it is not closed.
C7_CloseOnce ==
    /\ \A ch \in Chans : closes[ch] <= 1
    /\ \A ch \in created : (ch \in subscribers) <=> ~chanClosed[ch]
    /\ panicked # "close of closed channel"

\* a queue was unsubscribed twice and closed once
C7_Witness ==
    \E ch \in created : unsubCalls[ch] = 2 /\ closes[ch] = 1 /\ ch \notin subscribers

\* the subprocess of source s started and exited every time so far
OnlyExits(s) == \A i \in 1..Len(delays[s]) : delays[s][i].why = "exit"

\* C5: when a source's subprocess starts and exits immediately three or more
\* times in a row, each restart delay is longer than the one before it until
\* the delay reaches BackoffMax, and from then on it stays at BackoffMax.
C5_DelaysIncreaseToCap ==
    \A s \in Sources :
        (Len(delays[s]) >= 3 /\ OnlyExits(s)) =>
            \A i \in 1..(Len(delays[s]) - 1) :
                IF delays[s][i].d < gcfg.max
                  THEN delays[s][i + 1].d > delays[s][i].d
                  ELSE delays[s][i + 1].d = gcfg.max

C11_InsertionOrder ==
    (crashes = 0 /\ replaced = 0) =>
        \A i, j \in 1..Len(handed) :
            i < j => handed[i].rowid < handed[j].rowid

\* the rows inserted since the running tailer started
AfterStartRows ==
    IF tpc \in {"polling", "broadcast"} THEN messages \ atStart ELSE {}

\* C12: while the tailer keeps polling and the store's outages end, every
\* row (with an ID) inserted after the tailer started is eventually handed
\* to the hub.
C12_EventuallyPublished ==
    <>[](\/ crashes > 0
         \/ \A r \in AfterStartRows : r.id # "" => InSeq(r, handed))

\* TailNext, called with the tailer's cursor and any limit, returns a
\* cursor at or after it
TailNextNeverBack ==
    \A limit \in 0..MaxLimit :
        PosLeq(last, TailNextPos(TailNextRows(messages, last, limit), last))

\* C13: no step after Start moves the tailer's cursor backwards in
\* (ts, rowid) order, whether the tick succeeds, is empty or fails, and
\* TailNext never returns a cursor before the one it was given.
C13_CursorMonotone ==
    [][PosLeq(last, last') /\ TailNextNeverBack]_vars

\* the cursor sits on the later of at least two fetched rows and the
\* latest tick failed
C13_Witness ==
    /\ tpc = "polling"
    /\ lastTick = "error"
    /\ Cardinality(fetched) >= 2
    /\ \E r \in fetched : last = [ts |-> r.ts, rowid |-> r.rowid]

\* C15: within one run an ID is handed to the hub at most once, unless
\* r.seen was cleared between the two fetches.
C15_HandedOncePerEpoch ==
    \A i, j \in 1..Len(handed) :
        (i < j /\ handed[i].id = handed[j].id) => handedEpoch[i] # handedEpoch[j]

\* two rows with one ID were fetched in two batches and the ID was handed
\* to the hub once
C15_Witness ==
    /\ tpc = "polling"
    /\ \E r1, r2 \in fetched :
          /\ r1 # r2
          /\ r1.id = r2.id
          /\ Cardinality({i \in 1..Len(handed) : handed[i].id = r1.id}) = 1

\* C14: the file at OffsetPath, and everything a reader or a restart found
\* there, is absent or one complete cursor handed to writeOffset; until the
\* rename it is still the previous content, after a successful write it is
\* the new cursor, and a failed write leaves it and r.persisted as they were.
C14_OffsetFileAtomic ==
    /\ offsetFile \in {NoContent} \cup wrote
    /\ observed \subseteq {NoContent} \cup wrote
    /\ wpc \in {"tmp", "rename"} => offsetFile = wbefore.file
    /\ wres = "ok" => (offsetFile = wstate /\ persisted = wstate)
    /\ wres = "err" => (offsetFile = wbefore.file /\ persisted = wbefore.persisted)

\* a write failed after an earlier one had replaced the file, a partially
\* written tmp file was left behind, and a reader found the old cursor
C14_Witness ==
    /\ wres = "err"
    /\ tmpFile = Partial
    /\ offsetFile \in wrote
    /\ offsetFile \in observed
    /\ offsetFile # wstate

\* every source of the gnasty driver has left its loop
AllReturned == \A s \in urls : gpc[s] = "returned"

\* C16: under the gnasty driver, once the context is cancelled no source goes
\* from any other state into Running (no further subprocess is started),
\* every source's loop returns, Wait has returned only if every loop has
\* returned, and Wait does return.
C16_CancelStops ==
    /\ [][cancelled =>
            \A s \in urls : gpc'[s] = "running" => gpc[s] = "running"]_vars
    /\ [](waited => AllReturned)
    /\ (driver = "gnasty" /\ cancelled) ~> AllReturned
    /\ (driver = "gnasty" /\ cancelled) ~> waited

\* the context was cancelled while one source slept in backoff and another
\* ran its subprocess, and Wait has returned
C16_Witness ==
    /\ driver = "gnasty"
    /\ waited
    /\ \E s \in urls : sleepWhy[s] # "none"
    /\ \E s \in urls : backoff[s] = gcfg.base /\ delays[s] = <<>>
                       /\ sleepWhy[s] = "none"

\* C17: for each source the restart delay is within [BackoffBase,
\* BackoffMax]; a delay after a failed start is twice the delay before it,
\* capped at BackoffMax; after a successful start the delay is BackoffBase.
C17_DelayBounds ==
    \A s \in urls :
        /\ gcfg.base <= backoff[s] /\ backoff[s] <= gcfg.max
        /\ gpc[s] = "running" => backoff[s] = gcfg.base
        /\ \A i \in 1..Len(delays[s]) :
              LET cur == delays[s][i]
              IN /\ gcfg.base <= cur.d /\ cur.d <= gcfg.max
                 /\ cur.why = "exit" => cur.d = gcfg.base
                 /\ (cur.why = "startfail" /\ i = 1) => cur.d = gcfg.base
                 /\ (cur.why = "startfail" /\ i > 1) =>
                       cur.d = IF 2 * delays[s][i - 1].d > gcfg.max
                                 THEN gcfg.max
                                 ELSE 2 * delays[s][i - 1].d

\* a source failed to start until its delay was capped below twice the delay
\* before, then started, exited and slept BackoffBase
C17_Witness ==
    \E s \in urls :
        \E i \in 2..Len(delays[s]) :
            /\ delays[s][i - 1].why = "startfail"
            /\ delays[s][i - 1].d = gcfg.max
            /\ delays[s][i - 1].d > gcfg.base
            /\ i > 2 /\ delays[s][i - 1].d < 2 * delays[s][i - 2].d
            /\ delays[s][i].why = "exit"

\* the line numbers of the JSON values among the lines read from source s
JsonLineNumbers(s) == {n \in 1..Len(glines[s]) : glines[s][n] = "json"}

\* C18: with an insertion callback configured, the callback has been called
\* exactly once for each line read that is a JSON value, in the order the
\* lines were read, and for no empty or malformed line; and reading a line,
\* whatever its kind and whatever the callback returned, leaves the source in
\* its read loop with its delay and its past restarts unchanged.
C18_LinesForwardedOnce ==
    /\ [](hasInsert =>
            \A s \in urls :
               /\ {forwarded[s][i].n : i \in 1..Len(forwarded[s])}
                      = JsonLineNumbers(s)
               /\ \A i, j \in 1..Len(forwarded[s]) :
                     i < j => forwarded[s][i].n < forwarded[s][j].n)
    /\ [](~hasInsert => \A s \in urls : forwarded[s] = <<>>)
    /\ [][\A s \in urls :
             glines'[s] # glines[s] =>
                 /\ gpc[s] = "running" /\ gpc'[s] = "running"
                 /\ UNCHANGED <<backoff, delays, sleepWhy>>]_vars

\* a malformed line and a JSON line whose callback returned an error were
\* read, and the source then read another JSON line in the same run of the
\* subprocess
C18_Witness ==
    /\ hasInsert
    /\ \E s \in urls :
          /\ glines[s] = <<"bad", "json", "json">>
          /\ Len(forwarded[s]) = 2
          /\ forwarded[s][1].err
          /\ delays[s] = <<>>
          /\ gpc[s] = "running"

\* the loop state of source s under either driver
SourceState(s) ==
    <<gpc[s], backoff[s], sleepWhy[s], delays[s], fpc[s], fdelays[s]>>

\* one step of the loop of source s
LoopStep(s) ==
    \/ RunStartOf(s) \/ RunExitOf(s) \/ RunSleepOf(s) \/ RunSleepCancelledOf(s)
    \/ FetchStartOf(s) \/ FetchExitOf(s) \/ FetchSleepOf(s)

\* the loop of source s returned after the cancellation
LoopEnded(s) == gpc[s] = "returned"

\* source s has made every restart the bounds allow
AtRestartCap(s) ==
    \/ gpc[s] = "top" /\ ~cancelled /\ Len(delays[s]) >= RestartCap
    \/ fpc[s] = "start" /\ Len(fdelays[s]) >= RestartCap

\* C19: under either driver, whatever the other sources are doing, a source
\* whose loop has not returned on cancellation can take its next step
\* (start, exit, sleep, restart), and no step changes the loop state, the
\* delay included, of two sources.
C19_SourcesIndependent ==
    /\ [](\A s \in urls :
             (~LoopEnded(s) /\ ~AtRestartCap(s)) => ENABLED LoopStep(s))
    /\ [][\A s, t \in urls :
             (s # t /\ SourceState(s)' # SourceState(s)) =>
                 SourceState(t)' = SourceState(t)]_vars

\* the position of a text in the order the harvester emitted the lines
EmitIndex(text) == CHOOSE k \in 1..Len(LineTexts) : LineTexts[k] = text

\* the texts of the live frames written to the connection, in order
LiveFrameTexts ==
    LET live == SelectSeq(frames, LAMBDA f : f.kind = "live")
    IN [i \in 1..Len(live) |-> live[i].text]

C21_FailureNeverExits == ~procExited

\* the ingest loop of source s is not running
IngestStopped(s) == gpc[s] \in {"none", "returned"} /\ fpc[s] = "none"

\* C22: when the process exits after its shutdown signal, every ingest loop
\* and the tailer loop have stopped, and every registered subscriber queue
\* is empty or closed.
C22_ShutdownStopsAll ==
    [][(mpc = "shutdown" /\ mpc' = "exited") =>
          /\ \A s \in urls : IngestStopped(s)
          /\ tpc # "polling" /\ tpc # "broadcast"
          /\ \A ch \in subscribers : chanBuf[ch] = <<>> \/ chanClosed[ch]]_vars

\* Init of store s returns in this step
InitReturns(s) == ~stores[s].inited /\ stores'[s].inited

C24_SharedStateLocked ==
    /\ Cardinality({s \in Sources : epc[s] = "write"}) <= 1
    /\ panicked # "concurrent map writes"

\* C25: for one harvested message, the payload the tailer path broadcasts for
\* the stored row is the payload the live path broadcast: same author, text,
\* fragments, emotes, badges, source and colour
C25_TailerPayloadIsLive ==
    (liveOut # <<>> /\ tailerOut # <<>>) => tailerOut = liveOut

\* C26: every payload any path serializes (live ingest, tailer enrichment,
\* history fallback, sanitizing before a write) carries fragments, emotes and
\* badges as arrays, never as null
IsArray(sl) == ~sl.nil
C26_ListsNeverNull ==
    \A o \in SeqSet(lastOut) :
        IsArray(o.payload.fragments) /\ IsArray(o.payload.emotes)
          /\ IsArray(o.payload.badges)

\* the live path serialized a line whose emotes and badges the harvester
\* left out, and both came out as empty arrays
C26_Witness ==
    /\ lastOut # <<>>
    /\ lastOut[1].path = "live"
    /\ hmsg.emotes.nil /\ hmsg.badges.nil /\ hmsg.showBadges
    /\ lastOut[1].payload.emotes = Slice(<<>>)
    /\ lastOut[1].payload.badges = Slice(<<>>)

\* C27: PurgeBefore(cutoff) deletes exactly the rows whose timestamp is
\* strictly older than the cutoff, returns how many it deleted, and leaves
\* every other row present and unchanged
C27_PurgeBeforeExact ==
    (lastOp.op = "PurgeBefore" /\ ~lastOp.err) =>
        /\ \A r \in lastOp.prior : r.ts < lastOp.before <=> r \notin messages
        /\ messages \subseteq lastOp.prior
        /\ lastOp.n = Cardinality(lastOp.prior) - Cardinality(messages)

\* a purge removed one row and kept a row whose timestamp is the cutoff
C27_Witness ==
    /\ lastOp.op = "PurgeBefore" /\ lastOp.n = 1
    /\ \E r \in messages : r.ts = lastOp.before

\* C28: InsertMessage, GetRecent, TailHead, TailNext, Close and Init on a
\* persistent path never modify or remove a stored row; only PurgeBefore and
\* PurgeAll remove rows; an InsertMessage under an ID that exists fails and
\* leaves the row as it was
C28_RowsImmutable ==
    /\ lastOp.op \notin {"PurgeBefore", "PurgeAll"} =>
           lastOp.prior \subseteq messages
    /\ (lastOp.op = "InsertMessage" /\ \E r \in lastOp.prior : r.id = lastOp.arg)
           => (lastOp.err /\ messages = lastOp.prior)

\* an insert through an open store failed because its ID was taken
C28_Witness ==
    /\ lastOp.op = "InsertMessage" /\ lastOp.err /\ db = "open"
    /\ \E r \in messages : r.id = lastOp.arg

\* C29: GetRecent with both SinceTS and BeforeTS returns an error and no rows,
\* and GET /api/messages with both since_ts and before_ts answers 400 without
\* querying the store
BothCursors == lastOp.since # NoTS /\ lastOp.before # NoTS
C29_BothCursorsRejected ==
    /\ (lastOp.op = "GetRecent" /\ BothCursors) =>
           (lastOp.err /\ lastOp.rows = <<>>)
    /\ (lastOp.op = "GET /api/messages" /\ BothCursors) =>
           (lastOp.status = 400 /\ ~lastOp.queried)

\* GetRecent was called on an open store with both cursors while a row lay
\* between them
C29_Witness ==
    /\ lastOp.op = "GetRecent" /\ BothCursors /\ db = "open"
    /\ \E r \in messages : r.ts >= lastOp.since /\ r.ts < lastOp.before

\* C30: paging GET /api/messages by next_before_ts until a response carries
\* none visits every stored message exactly once, newest to oldest, whatever
\* the stored timestamps
C30_PagingVisitsAll ==
    pagePc = "done" => visited = ItemIds(RecentSorted(messages))

\* C31: after every poll tick the tailer's seen-ID set holds at most the cap,
\* however many rows were delivered
C31_SeenBounded == Cardinality(seen) <= SeenCap

\* a tick took the set past the cap and cleared it, after rows were delivered
C31_Witness == seenEpoch > 0 /\ seen = {} /\ Cardinality(fetched) > SeenCap

\* C32: for a text without markup the tokenizer yields exactly one Text token,
\* the text with leading and trailing whitespace removed and inner whitespace
\* runs collapsed to one blank; for an empty or all-whitespace text it yields
\* no token
Occurs(s, i, name) ==
    i + Len(name) - 1 <= Len(s) /\ SubSeq(s, i, i + Len(name) - 1) = name
NoMarkup(s) == \A i \in 1..Len(s), name \in EmoteNames : ~Occurs(s, i, name)
NonBlankIdx(s) == SelectSeq([i \in 1..Len(s) |-> i], LAMBDA i : s[i] # " ")
IsCollapseOf(v, s) ==
    LET P == NonBlankIdx(s)
        Q == NonBlankIdx(v)
    IN /\ v # <<>> /\ v[1] # " " /\ v[Len(v)] # " "
       /\ \A i \in 1..(Len(v) - 1) : ~(v[i] = " " /\ v[i + 1] = " ")
       /\ Len(P) = Len(Q)
       /\ \A k \in 1..Len(P) : v[Q[k]] = s[P[k]]
       /\ \A k \in 1..(Len(P) - 1) :
              (Q[k + 1] = Q[k] + 1) <=> (P[k + 1] = P[k] + 1)
C32_PlainTextOneToken ==
    (tokPc = "done" /\ NoMarkup(tokIn)) =>
        IF \A i \in 1..Len(tokIn) : tokIn[i] = " "
          THEN tokOut = <<>>
          ELSE /\ Len(tokOut) = 1
               /\ tokOut[1].type = "Text"
               /\ IsCollapseOf(tokOut[1].value, tokIn)

\* a text with a leading blank, a run of two blanks between words and a colon
\* came out as one shorter Text token
C32_Witness ==
    /\ tokPc = "done" /\ NoMarkup(tokIn) /\ Len(tokIn) = MaxText
    /\ tokIn[1] = " "
    /\ \E i \in 2..(Len(tokIn) - 2) :
           tokIn[i] = " " /\ tokIn[i + 1] = " " /\ tokIn[i + 2] = ":"
    /\ Len(tokOut) = 1 /\ Len(tokOut[1].value) = Len(tokIn) - 2

\* C33: every occurrence of a colon-wrapped known emote name is emitted by the
\* colon scan as one atomic segment, whatever precedes or follows it
RECURSIVE SegStart(_, _)
SegStart(segs, k) == IF k = 1 THEN 1 ELSE SegStart(segs, k - 1) + Len(segs[k - 1])
Atomic(i, name) ==
    \E k \in 1..Len(tokSegs) : SegStart(tokSegs, k) = i /\ tokSegs[k] = name
C33_EmoteSegmentAtomic ==
    tokPc # "start" =>
        \A i \in 1..Len(tokIn), name \in EmoteNames :
            Occurs(tokIn, i, name) => Atomic(i, name)

\* C33 as amended: an occurrence is one atomic segment unless its opening
\* colon is the closing colon of the colon-wrapped segment emitted just before
\* it; a name at the start of the text or directly after a colon is never split
ClosedBefore(i) ==
    \E k \in 1..Len(tokSegs) :
        /\ Len(tokSegs[k]) >= 3
        /\ tokSegs[k][1] = ":" /\ tokSegs[k][Len(tokSegs[k])] = ":"
        /\ SegStart(tokSegs, k) + Len(tokSegs[k]) - 1 = i
C33_EmoteAtomicUnlessClosing ==
    tokPc # "start" =>
        \A i \in 1..Len(tokIn), name \in EmoteNames :
            Occurs(tokIn, i, name) =>
                /\ ~ClosedBefore(i) => Atomic(i, name)
                /\ (i = 1 \/ tokIn[i - 1] = ":") => ~ClosedBefore(i)

\* the name was scanned as one segment after a run of two colons
C33_Witness ==
    /\ tokPc # "start"
    /\ Occurs(tokIn, 3, <<":", "e", ":">>)
    /\ tokIn[1] = ":" /\ tokIn[2] = ":"
    /\ Atomic(3, <<":", "e", ":">>)

\* C34: under every interleaving of broadcastChatMessage with
\* removeSubscriber, one that unsubscribes between the snapshot and the send
\* included, no send is made on a queue that was already closed
C34_NoSendOnClosed == panicked # "send on closed channel"

\* C35: a connected consumer is never written the same stored message twice,
\* neither by the history replay and then from its queue, nor from the ingest
\* broadcast and then from the tailer's broadcast of the row just inserted
\* (a non-empty text identifies the message of the source)
C35_NoMessageTwice ==
    \A i, j \in 1..Len(frames) :
        (i < j /\ frames[i].text # "") => frames[i].text # frames[j].text

\* C36: every message the live ingest path has broadcast is in the store, so
\* a consumer connecting later finds it in history; a failed InsertMessage
\* never leaves a message that was shown live but is missing from storage
C36_BroadcastWasInserted ==
    \A t \in published : \E r \in messages : r.text = t

\* the message carries text or at least one emote after normalization
HasContent(m) == m.message # "" \/ m.emotes.items # <<>>

\* C37: a message is dropped only when its text and its emote list are both
\* empty after normalization: a line with text or with an emote is stored
\* and broadcast by processChatOutput, and its row is broadcast by
\* BroadcastFromTailer, whatever its source label
C37_DropOnlyWhenEmpty ==
    /\ (prow = <<>> /\ liveOut = <<>> /\ HasContent(LiveMessage(hmsg)))
           => ENABLED LiveIngest
    /\ (prow # <<>> /\ tailerOut = <<>>
           /\ HasContent(enrichTailerPayload(prow[1], hmsg.pref, hmsg.showBadges)))
           => ENABLED TailerBroadcast

\* C38: a Start that failed because TailHead failed is retried: once the
\* store's outages end, the tailer reaches Polling
C38_StartRetried ==
    (tpc = "failed") ~> (tpc \in {"polling", "broadcast"})

\* the connection's queue is out of the registry and closed, the handler has
\* returned and closed the connection, and no writer goroutine is running
Released ==
    /\ 1 \notin subscribers
    /\ chanClosed[1]
    /\ hexit # ""
    /\ connClosed
    /\ ~WriterRunning

\* C39: on every exit path of StreamChat (history write error, read error,
\* timeout or client close, write failure in the writer goroutine) the
\* connection's queue is eventually removed from the registry and closed and
\* the writer goroutine terminates
C39_ConnectionReleased == (1 \in created) ~> Released

\* the writer goroutine failed on a write, the handler returned on a read
\* error afterwards, and everything of the connection is released
C39_Witness ==
    /\ Released
    /\ wexit = "write error"
    /\ hexit = "read error"

\* the operations on messages that test s.db == nil first
StoreOps ==
    {"InsertMessage", "GetRecent", "TailHead", "TailNext", "PurgeBefore",
     "PurgeAll"}

\* a step of a store that Init has run on: the result of Init and the
\* handle's absence stay as they are, and a call of Init returns the result
\* of the first call
InitOnceStep ==
    stores[1].inited =>
        /\ stores'[1].inited
        /\ stores'[1].err = stores[1].err
        /\ stores[1].db = "nil" => stores'[1].db = "nil"
        /\ (lastOp'.op = "Init" /\ lastOp' # lastOp)
               => lastOp'.err = (stores[1].err # "none")

\* a call of an operation on a closed store fails and changes nothing
ClosedStep ==
    (stores[1].inited /\ stores[1].db = "nil"
        /\ lastOp'.op \in StoreOps /\ lastOp' # lastOp)
        => /\ lastOp'.err
           /\ lastOp'.rows = <<>>
           /\ messages' = messages
           /\ dbFile' = dbFile

\* C40: Init takes effect at most once per Store: a later call returns the
\* first call's result and does not reopen the database, so a failed Init is
\* never retried; after Close every operation on messages returns the
\* "store not initialized" error and changes nothing
C40_InitOnceClosedFails == [][InitOnceStep /\ ClosedStep]_vars

\* Init succeeded, the store was closed with rows in it, Init was called
\* again and returned no error, and the store is still closed
C40_Witness ==
    /\ stores[1].inited /\ stores[1].err = "none"
    /\ stores[1].db = "nil"
    /\ messages # {}
    /\ lastOp.op = "Init" /\ ~lastOp.err

====
